---- MODULE Spec2Model ----
(***************************************************************************)
(* Model of plistrc/decoders.py (NSKeyedArchiverDecoder).                  *)
(*                                                                         *)
(* Values of a property list are tagged records:                           *)
(*   [t |-> "null"]            None                                        *)
(*   [t |-> "bool", b |-> ..]  bool                                        *)
(*   [t |-> "int",  n |-> ..]  int                                         *)
(*   [t |-> "real", m |-> ..]  float, m being the value in thousandths      *)
(*   [t |-> "str",  s |-> ..]  str                                         *)
(*   [t |-> "data", d |-> ..]  bytes (a sequence of byte values)           *)
(*   [t |-> "uid",  n |-> ..]  plistlib.UID                                *)
(*   [t |-> "date", d |-> ..]  datetime.datetime                           *)
(*   [t |-> "list", xs |-> ..] list                                        *)
(*   [t |-> "dict", kv |-> ..] dict, a sequence of <<key, value>> pairs in *)
(*                             insertion order, keys unique                *)
(***************************************************************************)
EXTENDS Integers, Sequences, FiniteSets, TLC

\* root_item  the value handed to the decoder
\* pc         what has been called so far
\* encoded    the result of IsEncoded(root_item), Null before the call
\* decoded    the outcome of Decode(root_item)
\* reencoded  the result of IsEncoded on the decoded value, Null before
VARIABLES root_item, pc, encoded, decoded, reencoded

\* files       the file entries ExtractSchemas has still to list
\* listed      the file entries listed so far
\* options     the command line options of the extract script
\* loaded      the local variable root_item of ExtractSchemas
\* log         the messages logged, each with the index of its file entry
\* pending     the pair ExtractSchemas has yielded and Main not yet taken,
\*             with the index of its file entry and the item the schema
\*             was taken from
\* yielded     all pairs yielded so far
\* printed     the output texts printed so far, each as its lines
\* directory   the files of the output directory, each with its name and
\*             its text
\* run         "running", "finished" or the class of the exception that
\*             ended the script
VARIABLES files, listed, options, loaded, log, pending, yielded, printed, run
VARIABLES directory

\* yaml_document  a document of a property list definitions file
\* definition     the outcome of _ReadPropertyListDefinition(yaml_document)
VARIABLES yaml_document, definition

\* uid_property    a value handed to _GetPlistUID
\* plist_uid       what _GetPlistUID returned for it
VARIABLES uid_property, plist_uid

decode_vars == <<root_item, pc, encoded, decoded, reencoded>>

extract_vars ==
  <<files, listed, options, loaded, log, pending, yielded, printed, run,
    directory>>

definition_vars == <<yaml_document, definition>>

uid_vars == <<uid_property, plist_uid>>

vars == <<decode_vars, extract_vars, definition_vars, uid_vars>>

-----------------------------------------------------------------------------
(* Bounds *)

\* Depth of nested _DecodeObject calls at which the interpreter gives up with
\* RecursionError (a small stand-in for sys.getrecursionlimit()).
RecursionLimit == 6

\* UID leaves of the generated archives hold the indices 0..MaxUID.
MaxUID == 2

\* The generated object pools hold 1..MaxBody entries, each followed (after
\* the last of them) by a class descriptor of its own.
MaxBody == 3

\* NS.objects of a generated NSArray holds at most MaxElems elements.
MaxElems == 2

-----------------------------------------------------------------------------
(* Values *)

Null == [t |-> "null"]
Bool(b) == [t |-> "bool", b |-> b]
Integer(n) == [t |-> "int", n |-> n]
Real(m) == [t |-> "real", m |-> m]
Str(s) == [t |-> "str", s |-> s]
Data(d) == [t |-> "data", d |-> d]
UID(n) == [t |-> "uid", n |-> n]
Date(d) == [t |-> "date", d |-> d]
List(xs) == [t |-> "list", xs |-> xs]
Dict(kv) == [t |-> "dict", kv |-> kv]

\* The XML representation of an archive UID.
CFUID(v) == Dict(<< <<"CF$UID", v>> >>)

Max(a, b) == IF a >= b THEN a ELSE b

\* key in d
DictHas(d, k) == \E i \in 1..Len(d.kv) : d.kv[i][1] = k

\* d.get(k, None)
DictGet(d, k) ==
  IF DictHas(d, k)
  THEN d.kv[CHOOSE i \in 1..Len(d.kv) : d.kv[i][1] = k][2]
  ELSE Null

\* d[k] = v on an insertion-ordered dict: an existing key keeps its position.
DictSet(d, k, v) ==
  IF DictHas(d, k)
  THEN Dict([i \in 1..Len(d.kv) |->
               IF d.kv[i][1] = k THEN <<k, v>> ELSE d.kv[i]])
  ELSE Dict(Append(d.kv, <<k, v>>))

\* a == b as Python evaluates it: numbers compare by value across bool, int
\* and float, everything else by type and content.
IsNumber(v) == v.t \in {"bool", "int", "real"}

Thousandths(v) ==
  CASE v.t = "bool" -> IF v.b THEN 1000 ELSE 0
    [] v.t = "int" -> 1000 * v.n
    [] v.t = "real" -> v.m

PyEq(a, b) ==
  IF IsNumber(a) /\ IsNumber(b) THEN Thousandths(a) = Thousandths(b)
  ELSE a = b

\* bool(v)
Truthy(v) ==
  CASE v.t = "null" -> FALSE
    [] v.t = "bool" -> v.b
    [] v.t = "int" -> v.n # 0
    [] v.t = "real" -> v.m # 0
    [] v.t = "str" -> v.s # ""
    [] v.t = "data" -> v.d # <<>>
    [] v.t = "list" -> v.xs # <<>>
    [] v.t = "dict" -> v.kv # <<>>
    [] OTHER -> TRUE

\* The elements a for loop over v visits, or the TypeError of a value that
\* is not iterable.  The characters of a text are opaque one-character texts.
Iter(v) ==
  CASE v.t = "list" -> [err |-> "", xs |-> v.xs]
    [] v.t = "dict" ->
         [err |-> "", xs |-> [i \in 1..Len(v.kv) |-> Str(v.kv[i][1])]]
    [] v.t = "str" -> [err |-> "", xs |-> [i \in 1..Len(v.s) |-> Str("?")]]
    [] v.t = "data" -> [err |-> "", xs |-> [i \in 1..Len(v.d) |-> Integer(v.d[i])]]
    [] OTHER -> [err |-> "TypeError", xs |-> <<>>]

\* objects_array[index]: IndexError out of range, negative indices count
\* from the end, a bool indexes as 0 or 1, TypeError for an index that is not
\* an integer.
Subscript(objects_array, index) ==
  LET n == Len(objects_array)
      k == IF index.t = "bool" THEN Thousandths(index) \div 1000 ELSE index.n
  IN
  CASE index.t \in {"int", "bool"} /\ k >= 0 /\ k < n ->
         [err |-> "", val |-> objects_array[k + 1], pos |-> k]
    [] index.t \in {"int", "bool"} /\ k < 0 /\ k >= -n ->
         [err |-> "", val |-> objects_array[n + k + 1], pos |-> n + k]
    [] index.t \in {"int", "bool"} ->
         [err |-> "IndexError", val |-> Null, pos |-> -1]
    [] OTHER -> [err |-> "TypeError", val |-> Null, pos |-> -1]

\* The test against the parent objects, looking at the last of them only.
InParents_LastOnly(v, parent_objects) ==
  /\ parent_objects # <<>>
  /\ PyEq(parent_objects[Len(parent_objects)], v)

\* value in parent_objects
InParents(v, parent_objects) ==
  \E i \in 1..Len(parent_objects) : PyEq(parent_objects[i], v)

-----------------------------------------------------------------------------
(* Outcomes of a call.                                                     *)
(*   err     "" for a normal return, else the class of the exception       *)
(*   msg     the message of the exception, shortened                       *)
(*   val     the returned value                                            *)
(*   po      parent_objects as the call leaves it                          *)
(*   maxlen  the largest length parent_objects had during the call         *)
(*   dup     whether parent_objects held a value twice during the call     *)
(*   visits  the pool entries decoded during the call, each with the       *)
(*           position of the entry, the kind of reference that led to it,  *)
(*           parent_objects when its decoding began and when it returned,  *)
(*           its decoded value and whether a reference to a parent object  *)
(*           was skipped while decoding it                                 *)
(*   cut     whether a reference to a parent object was skipped            *)

\* Some value stands twice in parent_objects.
HasDuplicate(parent_objects) ==
  \E i, j \in 1..Len(parent_objects) :
    i < j /\ PyEq(parent_objects[i], parent_objects[j])

Ret(v, po) ==
  [err |-> "", msg |-> "", val |-> v, po |-> po, maxlen |-> Len(po),
   dup |-> HasDuplicate(po), visits |-> {}, cut |-> FALSE]

Raise(kind, msg, po) ==
  [err |-> kind, msg |-> msg, val |-> Null, po |-> po, maxlen |-> Len(po),
   dup |-> HasDuplicate(po), visits |-> {}, cut |-> FALSE]

\* The outcome r of a nested call, seen from a caller whose outcome so far
\* is acc: the exception of r propagates, v and po replace the value and
\* the parent objects.
After(acc, r, v, po) ==
  [err |-> r.err, msg |-> r.msg,
   val |-> IF r.err = "" THEN v ELSE Null,
   po |-> po,
   maxlen |-> Max(Max(acc.maxlen, r.maxlen), Len(po)),
   dup |-> acc.dup \/ r.dup \/ HasDuplicate(po),
   visits |-> acc.visits \cup r.visits,
   cut |-> acc.cut \/ r.cut]

\* via names the reference that led to the entry ("top", "user", "objects",
\* "keys" or "$1"), path is parent_objects during the decoding of the entry.
Visit(pos, via, path, r) ==
  IF r.err = ""
  THEN {[pos |-> pos, via |-> via, path |-> path, po |-> r.po,
         val |-> r.val, cut |-> r.cut]}
  ELSE {}

WithVisit(r, pos, via, path) ==
  [r EXCEPT !.visits = @ \cup Visit(pos, via, path, r)]

\* A pop that leaves parent_objects as it is.
Pop_Keep(parent_objects) == parent_objects

\* parent_objects.pop(-1)
Pop(parent_objects) == SubSeq(parent_objects, 1, Len(parent_objects) - 1)

-----------------------------------------------------------------------------
(* NSKeyedArchiverDecoder *)

_CALLBACKS ==
  [NSArray |-> "_DecodeNSArray",
   NSData |-> "_DecodeNSData",
   NSDate |-> "_DecodeNSDate",
   NSDictionary |-> "_DecodeNSDictionary",
   NSHashTable |-> "_DecodeNSHashTable",
   NSNull |-> "_DecodeNSNull",
   NSObject |-> "_DecodeCompositeObject",
   NSSet |-> "_DecodeNSArray",
   NSString |-> "_DecodeNSString",
   NSURL |-> "_DecodeNSURL",
   NSUUID |-> "_DecodeNSUUID"]

\* self._CALLBACKS.get(name, None), "" standing for None
CallbackOf(name) ==
  IF name.t = "str" /\ name.s \in DOMAIN _CALLBACKS
  THEN _CALLBACKS[name.s] ELSE ""

_GetPlistUID(plist_property) ==
  IF plist_property.t = "uid" THEN Integer(plist_property.n)
  ELSE IF /\ plist_property.t = "dict"
          /\ DictHas(plist_property, "CF$UID")
          /\ Len(plist_property.kv) = 1
       THEN plist_property.kv[1][2]
       ELSE Null

_GetClassName(plist_property, objects_array) ==
  LET class_property == DictGet(plist_property, "$class")
      class_plist_uid == _GetPlistUID(class_property)
      sub == Subscript(objects_array, class_plist_uid)
      referenced_property == sub.val
      class_name == DictGet(referenced_property, "$classname")
  IN IF plist_property.t # "dict"
     THEN [err |-> "AttributeError", msg |-> "no attribute get", val |-> Null]
     ELSE IF ~Truthy(class_property)
     THEN [err |-> "RuntimeError", msg |-> "Missing $class property.",
           val |-> Null]
     ELSE IF class_plist_uid = Null
     THEN [err |-> "RuntimeError", msg |-> "Missing UID in $class property.",
           val |-> Null]
     ELSE IF sub.err # ""
     THEN [err |-> sub.err, msg |-> "objects_array index", val |-> Null]
     ELSE IF ~Truthy(referenced_property)
     THEN [err |-> "RuntimeError", msg |-> "Missing class with UID",
           val |-> Null]
     ELSE IF referenced_property.t # "dict"
     THEN [err |-> "AttributeError", msg |-> "no attribute get", val |-> Null]
     ELSE IF ~Truthy(class_name)
     THEN [err |-> "RuntimeError", msg |-> "$classname property missing",
           val |-> Null]
     ELSE [err |-> "", msg |-> "", val |-> class_name]

-----------------------------------------------------------------------------
(* Handlers that do not recurse *)

_DecodeNSData(plist_property, objects_array, parent_objects) ==
  LET class_name == _GetClassName(plist_property, objects_array)
      ns_data == DictGet(plist_property, "NS.data")
  IN IF class_name.err # ""
     THEN Raise(class_name.err, class_name.msg, parent_objects)
     ELSE IF ~DictHas(plist_property, "NS.data")
     THEN Raise("RuntimeError", "Missing NS.data", parent_objects)
     ELSE IF ns_data.t # "data"
     THEN Raise("RuntimeError", "Unsupported type in NS.data", parent_objects)
     ELSE Ret(ns_data, parent_objects)

_DecodeNSDate(plist_property, objects_array, parent_objects) ==
  LET class_name == _GetClassName(plist_property, objects_array)
      ns_time == DictGet(plist_property, "NS.time")
  IN IF class_name.err # ""
     THEN Raise(class_name.err, class_name.msg, parent_objects)
     ELSE IF ~DictHas(plist_property, "NS.time")
     THEN Raise("RuntimeError", "Missing NS.time", parent_objects)
     ELSE IF ns_time.t # "real"
     THEN Raise("RuntimeError", "Unsupported type in NS.time", parent_objects)
     ELSE Ret(ns_time, parent_objects)

_DecodeNSNull(plist_property, objects_array, parent_objects) ==
  Ret(Null, parent_objects)

_DecodeNSString(plist_property, objects_array, parent_objects) ==
  LET class_name == _GetClassName(plist_property, objects_array)
      ns_string == DictGet(plist_property, "NS.string")
  IN IF class_name.err # ""
     THEN Raise(class_name.err, class_name.msg, parent_objects)
     ELSE IF ~DictHas(plist_property, "NS.string")
     THEN Raise("RuntimeError", "Missing NS.string", parent_objects)
     ELSE IF ns_string.t # "str"
     THEN Raise("RuntimeError", "Unsupported type in NS.string",
                parent_objects)
     ELSE Ret(ns_string, parent_objects)

_DecodeNSURL(plist_property, objects_array, parent_objects) ==
  LET ns_base_plist_uid == _GetPlistUID(DictGet(plist_property, "NS.base"))
      base_sub == Subscript(objects_array, ns_base_plist_uid)
      ns_base == base_sub.val
      ns_relative_plist_uid ==
        _GetPlistUID(DictGet(plist_property, "NS.relative"))
      relative_sub == Subscript(objects_array, ns_relative_plist_uid)
      ns_relative == relative_sub.val
  IN IF \/ ~DictHas(plist_property, "NS.base")
        \/ ~DictHas(plist_property, "NS.relative")
     THEN Raise("RuntimeError", "Missing NS.base or NS.relative in NSURL",
                parent_objects)
     ELSE IF ns_base_plist_uid = Null
     THEN Raise("RuntimeError", "Missing UID in NS.base property of NSURL.",
                parent_objects)
     ELSE IF base_sub.err # ""
     THEN Raise(base_sub.err, "objects_array index", parent_objects)
     ELSE IF ~Truthy(ns_base)
     THEN Raise("RuntimeError", "Missing NSURL.NS.base with UID",
                parent_objects)
     ELSE IF ns_base.t # "str"
     THEN Raise("RuntimeError", "Unsupported type in NSURL.NS.base",
                parent_objects)
     ELSE IF ns_relative_plist_uid = Null
     THEN Raise("RuntimeError",
                "Missing UID in NS.relative property of NSURL.",
                parent_objects)
     ELSE IF relative_sub.err # ""
     THEN Raise(relative_sub.err, "objects_array index", parent_objects)
     ELSE IF ~Truthy(ns_relative)
     THEN Raise("RuntimeError", "Missing NSURL.NS.relative with UID",
                parent_objects)
     ELSE IF ns_relative.t # "str"
     THEN Raise("RuntimeError", "Unsupported type in NSURL.NS.relative",
                parent_objects)
     ELSE IF ns_base.s = "$null"
     THEN Ret(ns_relative, parent_objects)
     ELSE Ret(Str(ns_base.s \o "/" \o ns_relative.s), parent_objects)

HexDigits == <<"0", "1", "2", "3", "4", "5", "6", "7",
               "8", "9", "a", "b", "c", "d", "e", "f">>

\* Two lowercase hexadecimal digits of a byte.
HexOfByte(b) == HexDigits[(b \div 16) + 1] \o HexDigits[(b % 16) + 1]

RECURSIVE HexOfBytes(_, _, _)
HexOfBytes(d, first, last) ==
  IF first > last THEN ""
  ELSE HexOfByte(d[first]) \o HexOfBytes(d, first + 1, last)

\* str(uuid.UUID(bytes=d)) for 16 bytes d: the 8-4-4-4-12 form.
UUIDText(d) ==
  HexOfBytes(d, 1, 4) \o "-" \o HexOfBytes(d, 5, 6) \o "-" \o
  HexOfBytes(d, 7, 8) \o "-" \o HexOfBytes(d, 9, 10) \o "-" \o
  HexOfBytes(d, 11, 16)

\* len(v), or the TypeError of a value without a length
PyLen(v) ==
  CASE v.t = "data" -> [err |-> "", n |-> Len(v.d)]
    [] v.t = "str" -> [err |-> "", n |-> Len(v.s)]
    [] v.t = "list" -> [err |-> "", n |-> Len(v.xs)]
    [] v.t = "dict" -> [err |-> "", n |-> Len(v.kv)]
    [] OTHER -> [err |-> "TypeError", n |-> 0]

_DecodeNSUUID(plist_property, objects_array, parent_objects) ==
  LET ns_uuidbytes == DictGet(plist_property, "NS.uuidbytes")
      size == PyLen(ns_uuidbytes)
  IN IF ~DictHas(plist_property, "NS.uuidbytes")
     THEN Raise("RuntimeError", "Missing NS.uuidbytes", parent_objects)
     ELSE IF size.err # ""
     THEN Raise(size.err, "object has no len()", parent_objects)
     ELSE IF size.n # 16
     THEN Raise("RuntimeError", "Unsupported NS.uuidbytes size",
                parent_objects)
     ELSE IF ns_uuidbytes.t # "data"
     THEN Raise("AssertionError", "uuid.UUID bytes", parent_objects)
     ELSE Ret(Str(UUIDText(ns_uuidbytes.d)), parent_objects)

-----------------------------------------------------------------------------
(* The dispatcher and the handlers that recurse.  depth counts the nested  *)
(* _DecodeObject calls.                                                    *)

\* The callback of the last name of classes[i..] that has one.
ScanClasses_Last(classes, i) ==
  LET hits == {j \in i..Len(classes) : CallbackOf(classes[j]) # ""}
  IN IF hits = {} THEN ""
     ELSE CallbackOf(classes[CHOOSE j \in hits : \A k \in hits : k <= j])

\* The callback the loop over $classes leaves in callback_method: that of
\* the first name with a callback, "" when no name has one.
RECURSIVE ScanClasses(_, _)
ScanClasses(classes, i) ==
  IF i > Len(classes) THEN ""
  ELSE IF CallbackOf(classes[i]) # "" THEN CallbackOf(classes[i])
  ELSE ScanClasses(classes, i + 1)

\* ns_keys_property[index], index counted from 0
KeyAt(ns_keys_property, index) ==
  CASE ns_keys_property.t = "list" ->
         [err |-> "", val |-> ns_keys_property.xs[index + 1]]
    [] ns_keys_property.t = "str" -> [err |-> "", val |-> Str("?")]
    [] ns_keys_property.t = "data" ->
         [err |-> "", val |-> Integer(ns_keys_property.d[index + 1])]
    [] OTHER -> [err |-> "KeyError", val |-> Null]

RECURSIVE _DecodeObject(_, _, _, _)
RECURSIVE _DecodeNSObject(_, _, _, _)
RECURSIVE _DecodeCompositeObject(_, _, _, _)
RECURSIVE CompositeFields(_, _, _, _, _)
RECURSIVE _DecodeNSArray(_, _, _, _)
RECURSIVE ArrayElements(_, _, _, _, _)
RECURSIVE _DecodeNSDictionary(_, _, _, _)
RECURSIVE DictionaryEntries(_, _, _, _, _, _)
RECURSIVE _DecodeNSHashTable(_, _, _, _)

\* One pass of the loop of _DecodeCompositeObject over the keys, from the
\* i-th key on; acc is the outcome so far, acc.val being composite_object.
CompositeFields(i, plist_property, objects_array, acc, depth) ==
  IF i > Len(plist_property.kv) THEN acc
  ELSE
    LET key == plist_property.kv[i][1]
        value_plist_property == DictGet(plist_property, key)
        value_plist_uid == _GetPlistUID(value_plist_property)
        inline == _DecodeObject(
          value_plist_property, objects_array, acc.po, depth + 1)
        pushed == Append(acc.po, value_plist_uid)
        sub == Subscript(objects_array, value_plist_uid)
        referenced == _DecodeObject(sub.val, objects_array, pushed, depth + 1)
    IN IF key = "$class"
       THEN CompositeFields(i + 1, plist_property, objects_array, acc, depth)
       ELSE IF value_plist_uid = Null
       THEN IF inline.err # ""
            THEN After(acc, inline, Null, inline.po)
            ELSE CompositeFields(
                   i + 1, plist_property, objects_array,
                   After(acc, inline, DictSet(acc.val, key, inline.val),
                         inline.po),
                   depth)
       ELSE IF InParents(value_plist_uid, acc.po)
       THEN CompositeFields(
              i + 1, plist_property, objects_array,
              [acc EXCEPT !.cut = TRUE], depth)
       ELSE IF sub.err # ""
       THEN After(acc, Raise(sub.err, "objects_array index", pushed),
                  Null, pushed)
       ELSE IF referenced.err # ""
       THEN After(acc, referenced, Null, referenced.po)
       ELSE CompositeFields(
              i + 1, plist_property, objects_array,
              After(acc, WithVisit(referenced, sub.pos, "user", pushed),
                    DictSet(acc.val, key, referenced.val),
                    Pop(referenced.po)),
              depth)

_DecodeCompositeObject(plist_property, objects_array, parent_objects, depth) ==
  CASE plist_property.t = "dict" ->
         CompositeFields(1, plist_property, objects_array,
                         Ret(Dict(<<>>), parent_objects), depth)
    [] plist_property.t \in {"str", "list", "data"} ->
         IF Truthy(plist_property)
         THEN Raise("AttributeError", "no attribute get", parent_objects)
         ELSE Ret(Dict(<<>>), parent_objects)
    [] OTHER -> Raise("TypeError", "object is not iterable", parent_objects)

\* The loop of _DecodeNSArray raising an error for an element that refers
\* to a parent object instead of passing over it.
ArrayElements_RaiseOnCycle(i, ns_objects, objects_array, acc, depth) ==
  IF i > Len(ns_objects) THEN acc
  ELSE
    LET ns_object_plist_uid == _GetPlistUID(ns_objects[i])
        sub == Subscript(objects_array, ns_object_plist_uid)
        pushed == Append(acc.po, ns_object_plist_uid)
        element == _DecodeObject(sub.val, objects_array, pushed, depth + 1)
    IN IF ns_object_plist_uid = Null
       THEN After(acc, Raise("RuntimeError", "Missing UID in NS.objects",
                             acc.po), Null, acc.po)
       ELSE IF InParents(ns_object_plist_uid, acc.po)
       THEN After(acc, Raise("RuntimeError", "NS.objects in parent objects",
                             acc.po), Null, acc.po)
       ELSE IF sub.err # ""
       THEN After(acc, Raise(sub.err, "objects_array index", acc.po),
                  Null, acc.po)
       ELSE IF element.err # ""
       THEN After(acc, element, Null, element.po)
       ELSE ArrayElements(
              i + 1, ns_objects, objects_array,
              After(acc, WithVisit(element, sub.pos, "objects", pushed),
                    List(Append(acc.val.xs, element.val)),
                    Pop(element.po)),
              depth)

\* The loop of _DecodeNSArray putting each decoded element in front of those
\* decoded before it.
ArrayElements_Reversed(i, ns_objects, objects_array, acc, depth) ==
  IF i > Len(ns_objects) THEN acc
  ELSE
    LET ns_object_plist_uid == _GetPlistUID(ns_objects[i])
        sub == Subscript(objects_array, ns_object_plist_uid)
        pushed == Append(acc.po, ns_object_plist_uid)
        element == _DecodeObject(sub.val, objects_array, pushed, depth + 1)
    IN IF ns_object_plist_uid = Null
       THEN After(acc, Raise("RuntimeError", "Missing UID in NS.objects",
                             acc.po), Null, acc.po)
       ELSE IF InParents(ns_object_plist_uid, acc.po)
       THEN ArrayElements(i + 1, ns_objects, objects_array,
                          [acc EXCEPT !.cut = TRUE], depth)
       ELSE IF sub.err # ""
       THEN After(acc, Raise(sub.err, "objects_array index", acc.po),
                  Null, acc.po)
       ELSE IF element.err # ""
       THEN After(acc, element, Null, element.po)
       ELSE ArrayElements(
              i + 1, ns_objects, objects_array,
              After(acc, WithVisit(element, sub.pos, "objects", pushed),
                    List(<<element.val>> \o acc.val.xs),
                    Pop(element.po)),
              depth)

\* The loop of _DecodeNSArray from the i-th element on; acc.val is ns_array.
ArrayElements(i, ns_objects, objects_array, acc, depth) ==
  IF i > Len(ns_objects) THEN acc
  ELSE
    LET ns_object_plist_uid == _GetPlistUID(ns_objects[i])
        sub == Subscript(objects_array, ns_object_plist_uid)
        pushed == Append(acc.po, ns_object_plist_uid)
        element == _DecodeObject(sub.val, objects_array, pushed, depth + 1)
    IN IF ns_object_plist_uid = Null
       THEN After(acc, Raise("RuntimeError", "Missing UID in NS.objects",
                             acc.po), Null, acc.po)
       ELSE IF InParents(ns_object_plist_uid, acc.po)
       THEN ArrayElements(i + 1, ns_objects, objects_array,
                          [acc EXCEPT !.cut = TRUE], depth)
       ELSE IF sub.err # ""
       THEN After(acc, Raise(sub.err, "objects_array index", acc.po),
                  Null, acc.po)
       ELSE IF element.err # ""
       THEN After(acc, element, Null, element.po)
       ELSE ArrayElements(
              i + 1, ns_objects, objects_array,
              After(acc, WithVisit(element, sub.pos, "objects", pushed),
                    List(Append(acc.val.xs, element.val)),
                    Pop(element.po)),
              depth)

_DecodeNSArray(plist_property, objects_array, parent_objects, depth) ==
  LET class_name == _GetClassName(plist_property, objects_array)
      ns_objects == Iter(DictGet(plist_property, "NS.objects"))
  IN IF class_name.err # ""
     THEN Raise(class_name.err, class_name.msg, parent_objects)
     ELSE IF ~DictHas(plist_property, "NS.objects")
     THEN Raise("RuntimeError", "Missing NS.objects", parent_objects)
     ELSE IF ns_objects.err # ""
     THEN Raise(ns_objects.err, "object is not iterable", parent_objects)
     ELSE ArrayElements(1, ns_objects.xs, objects_array,
                        Ret(List(<<>>), parent_objects), depth)

\* The loop of _DecodeNSDictionary from the i-th entry on; acc.val is
\* ns_dictionary.
DictionaryEntries(i, ns_keys_property, ns_objects, objects_array, acc, depth) ==
  IF i > Len(ns_objects) THEN acc
  ELSE
    LET ns_key_property == KeyAt(ns_keys_property, i - 1)
        ns_key_plist_uid == _GetPlistUID(ns_key_property.val)
        key_sub == Subscript(objects_array, ns_key_plist_uid)
        key_pushed == Append(acc.po, ns_key_plist_uid)
        key_outcome ==
          _DecodeObject(key_sub.val, objects_array, key_pushed, depth + 1)
        ns_key == key_outcome.val
        with_key ==
          After(acc, WithVisit(key_outcome, key_sub.pos, "keys", key_pushed), acc.val,
                Pop(key_outcome.po))
        ns_object_plist_uid == _GetPlistUID(ns_objects[i])
        sub == Subscript(objects_array, ns_object_plist_uid)
        pushed == Append(with_key.po, ns_object_plist_uid)
        object == _DecodeObject(sub.val, objects_array, pushed, depth + 1)
    IN IF ns_key_property.err # ""
       THEN After(acc, Raise(ns_key_property.err, "NS.keys index", acc.po),
                  Null, acc.po)
       ELSE IF ns_key_plist_uid = Null
       THEN After(acc, Raise("RuntimeError", "Missing UID in NS.keys",
                             acc.po), Null, acc.po)
       ELSE IF key_sub.err # ""
       THEN After(acc, Raise(key_sub.err, "objects_array index", acc.po),
                  Null, acc.po)
       ELSE IF key_outcome.err # ""
       THEN After(acc, key_outcome, Null, key_outcome.po)
       ELSE IF ~Truthy(ns_key)
       THEN After(with_key, Raise("RuntimeError", "Missing NS.keys with UID",
                                  with_key.po), Null, with_key.po)
       ELSE IF ns_key.t # "str"
       THEN After(with_key, Raise("RuntimeError", "Unsupported type in NS.keys",
                                  with_key.po), Null, with_key.po)
       ELSE IF ns_object_plist_uid = Null
       THEN After(with_key, Raise("RuntimeError", "Missing UID in NS.objects",
                                  with_key.po), Null, with_key.po)
       ELSE IF InParents(ns_object_plist_uid, with_key.po)
       THEN DictionaryEntries(i + 1, ns_keys_property, ns_objects,
                              objects_array, [with_key EXCEPT !.cut = TRUE],
                              depth)
       ELSE IF sub.err # ""
       THEN After(with_key, Raise(sub.err, "objects_array index",
                                  with_key.po), Null, with_key.po)
       ELSE IF object.err # ""
       THEN After(with_key, object, Null, object.po)
       ELSE DictionaryEntries(
              i + 1, ns_keys_property, ns_objects, objects_array,
              After(with_key, WithVisit(object, sub.pos, "objects", pushed),
                    DictSet(with_key.val, ns_key.s, object.val),
                    Pop(object.po)),
              depth)

_DecodeNSDictionary(plist_property, objects_array, parent_objects, depth) ==
  LET class_name == _GetClassName(plist_property, objects_array)
      ns_keys_property == DictGet(plist_property, "NS.keys")
      ns_objects_property == DictGet(plist_property, "NS.objects")
      keys_len == PyLen(ns_keys_property)
      objects_len == PyLen(ns_objects_property)
      ns_objects == Iter(ns_objects_property)
  IN IF class_name.err # ""
     THEN Raise(class_name.err, class_name.msg, parent_objects)
     ELSE IF \/ ~DictHas(plist_property, "NS.keys")
             \/ ~DictHas(plist_property, "NS.objects")
     THEN Raise("RuntimeError", "Missing NS.keys or NS.objects",
                parent_objects)
     ELSE IF keys_len.err # "" \/ objects_len.err # ""
     THEN Raise("TypeError", "object has no len()", parent_objects)
     ELSE IF keys_len.n # objects_len.n
     THEN Raise("RuntimeError",
                "Mismatch between number of NS.keys and NS.objects",
                parent_objects)
     ELSE DictionaryEntries(1, ns_keys_property, ns_objects.xs, objects_array,
                            Ret(Dict(<<>>), parent_objects), depth)

\* _DecodeNSHashTable returning an empty mapping, instead of raising an
\* error, for a $1 that refers to a parent object.
_DecodeNSHashTable_DropOnCycle(plist_property, objects_array, parent_objects, depth) ==
  LET class_name == _GetClassName(plist_property, objects_array)
      value_property == DictGet(plist_property, "$1")
      value_plist_uid == _GetPlistUID(value_property)
      sub == Subscript(objects_array, value_plist_uid)
      referenced_property == sub.val
      pushed == Append(parent_objects, value_plist_uid)
      ns_hash_table ==
        _DecodeCompositeObject(referenced_property, objects_array, pushed,
                               depth)
  IN IF class_name.err # ""
     THEN Raise(class_name.err, class_name.msg, parent_objects)
     ELSE IF ~DictHas(plist_property, "$1")
     THEN Raise("RuntimeError", "Missing $1", parent_objects)
     ELSE IF value_plist_uid = Null
     THEN Raise("RuntimeError", "Unsupported $1 type", parent_objects)
     ELSE IF InParents(value_plist_uid, parent_objects)
     THEN Ret(Dict(<<>>), parent_objects)
     ELSE IF sub.err # ""
     THEN Raise(sub.err, "objects_array index", parent_objects)
     ELSE IF ~Truthy(referenced_property)
     THEN Raise("RuntimeError", "Missing $1 with UID", parent_objects)
     ELSE IF ns_hash_table.err # ""
     THEN ns_hash_table
     ELSE After(Ret(Null, parent_objects),
                WithVisit(ns_hash_table, sub.pos, "$1", pushed),
                ns_hash_table.val, Pop(ns_hash_table.po))

_DecodeNSHashTable(plist_property, objects_array, parent_objects, depth) ==
  LET class_name == _GetClassName(plist_property, objects_array)
      value_property == DictGet(plist_property, "$1")
      value_plist_uid == _GetPlistUID(value_property)
      sub == Subscript(objects_array, value_plist_uid)
      referenced_property == sub.val
      pushed == Append(parent_objects, value_plist_uid)
      ns_hash_table ==
        _DecodeCompositeObject(referenced_property, objects_array, pushed,
                               depth)
  IN IF class_name.err # ""
     THEN Raise(class_name.err, class_name.msg, parent_objects)
     ELSE IF ~DictHas(plist_property, "$1")
     THEN Raise("RuntimeError", "Missing $1", parent_objects)
     ELSE IF value_plist_uid = Null
     THEN Raise("RuntimeError", "Unsupported $1 type", parent_objects)
     ELSE IF InParents(value_plist_uid, parent_objects)
     THEN Raise("RuntimeError", "$1 in parent objects", parent_objects)
     ELSE IF sub.err # ""
     THEN Raise(sub.err, "objects_array index", parent_objects)
     ELSE IF ~Truthy(referenced_property)
     THEN Raise("RuntimeError", "Missing $1 with UID", parent_objects)
     ELSE IF ns_hash_table.err # ""
     THEN ns_hash_table
     ELSE After(Ret(Null, parent_objects),
                WithVisit(ns_hash_table, sub.pos, "$1", pushed),
                ns_hash_table.val, Pop(ns_hash_table.po))

_DecodeNSObject(plist_property, objects_array, parent_objects, depth) ==
  LET class_property == DictGet(plist_property, "$class")
      class_plist_uid == _GetPlistUID(class_property)
      sub == Subscript(objects_array, class_plist_uid)
      referenced_property == sub.val
      class_name == DictGet(referenced_property, "$classname")
      classes == DictGet(referenced_property, "$classes")
      names == Iter(classes)
      callback_method == ScanClasses(names.xs, 1)
  IN IF plist_property.t # "dict"
     THEN Raise("AttributeError", "no attribute get", parent_objects)
     ELSE IF ~Truthy(class_property)
     THEN Raise("RuntimeError", "$class property missing in NSObject.",
                parent_objects)
     ELSE IF class_plist_uid = Null
     THEN Raise("RuntimeError", "Missing UID in $class property of NSObject.",
                parent_objects)
     ELSE IF sub.err # ""
     THEN Raise(sub.err, "objects_array index", parent_objects)
     ELSE IF ~Truthy(referenced_property)
     THEN Raise("RuntimeError", "Missing NSObject.$class with UID",
                parent_objects)
     ELSE IF referenced_property.t # "dict"
     THEN Raise("AttributeError", "no attribute get", parent_objects)
     ELSE IF ~Truthy(class_name)
     THEN Raise("RuntimeError", "$classname property missing",
                parent_objects)
     ELSE IF ~Truthy(classes)
     THEN Raise("RuntimeError", "$classes property missing", parent_objects)
     ELSE IF names.err # ""
     THEN Raise(names.err, "object is not iterable", parent_objects)
     ELSE IF callback_method = ""
     THEN Raise("RuntimeError", "Missing callback for class", parent_objects)
     ELSE
       CASE callback_method = "_DecodeNSArray" ->
              _DecodeNSArray(plist_property, objects_array, parent_objects,
                             depth)
         [] callback_method = "_DecodeNSData" ->
              _DecodeNSData(plist_property, objects_array, parent_objects)
         [] callback_method = "_DecodeNSDate" ->
              _DecodeNSDate(plist_property, objects_array, parent_objects)
         [] callback_method = "_DecodeNSDictionary" ->
              _DecodeNSDictionary(plist_property, objects_array,
                                  parent_objects, depth)
         [] callback_method = "_DecodeNSHashTable" ->
              _DecodeNSHashTable(plist_property, objects_array,
                                 parent_objects, depth)
         [] callback_method = "_DecodeNSNull" ->
              _DecodeNSNull(plist_property, objects_array, parent_objects)
         [] callback_method = "_DecodeCompositeObject" ->
              _DecodeCompositeObject(plist_property, objects_array,
                                     parent_objects, depth)
         [] callback_method = "_DecodeNSString" ->
              _DecodeNSString(plist_property, objects_array, parent_objects)
         [] callback_method = "_DecodeNSURL" ->
              _DecodeNSURL(plist_property, objects_array, parent_objects)
         [] callback_method = "_DecodeNSUUID" ->
              _DecodeNSUUID(plist_property, objects_array, parent_objects)

\* _DecodeObject without the branch that hands records to _DecodeNSObject.
_DecodeObject_NoDispatch(plist_property, objects_array, parent_objects, depth) ==
  IF depth > RecursionLimit
  THEN Raise("RecursionError", "maximum recursion depth exceeded",
             parent_objects)
  ELSE IF plist_property.t = "str" /\ plist_property.s = "$null"
  THEN Ret(Null, parent_objects)
  ELSE Ret(plist_property, parent_objects)

_DecodeObject(plist_property, objects_array, parent_objects, depth) ==
  IF depth > RecursionLimit
  THEN Raise("RecursionError", "maximum recursion depth exceeded",
             parent_objects)
  ELSE IF plist_property.t = "dict" /\ DictHas(plist_property, "$class")
  THEN _DecodeNSObject(plist_property, objects_array, parent_objects, depth)
  ELSE IF plist_property.t = "str" /\ plist_property.s = "$null"
  THEN Ret(Null, parent_objects)
  ELSE Ret(plist_property, parent_objects)

\* The loop of Decode over $top from the i-th entry on; acc.val is
\* decoded_object.
RECURSIVE TopEntries(_, _, _, _)
TopEntries(i, top_property, objects_array, acc) ==
  IF i > Len(top_property.kv) THEN acc
  ELSE
    LET name == top_property.kv[i][1]
        value_property == top_property.kv[i][2]
        value_plist_uid == _GetPlistUID(value_property)
        sub == Subscript(objects_array, value_plist_uid)
        value_referenced_property == sub.val
        outcome == _DecodeNSObject(value_referenced_property, objects_array,
                                   <<value_plist_uid>>, 1)
    IN IF value_plist_uid = Null
       THEN TopEntries(i + 1, top_property, objects_array,
                       [acc EXCEPT !.val = DictSet(@, name, value_property)])
       ELSE IF sub.err # ""
       THEN After(acc, Raise(sub.err, "objects_array index", <<>>), Null,
                  <<>>)
       ELSE IF ~Truthy(value_referenced_property)
       THEN After(acc, Raise("RuntimeError", "Missing $top with UID", <<>>),
                  Null, <<>>)
       ELSE IF outcome.err # ""
       THEN After(acc, outcome, Null, <<>>)
       ELSE TopEntries(i + 1, top_property, objects_array,
                       After(acc, WithVisit(outcome, sub.pos, "top",
                                       <<value_plist_uid>>),
                             DictSet(acc.val, name, outcome.val), <<>>))

\* Decode with decoded_object starting from the envelope keys of the root
\* instead of the empty mapping.
Decode_KeepsEnvelope(root) ==
  LET archiver == DictGet(root, "$archiver")
      version == DictGet(root, "$version")
      objects_property == DictGet(root, "$objects")
      objects_array ==
        IF Truthy(objects_property) THEN objects_property.xs ELSE <<>>
      top == DictGet(root, "$top")
      top_property == IF Truthy(top) THEN top ELSE Dict(<<>>)
  IN IF root.t # "dict"
     THEN Raise("RuntimeError",
                "Unsupported plist: unsupported root item type", <<>>)
     ELSE IF \/ ~PyEq(archiver, Str("NSKeyedArchiver"))
             \/ ~PyEq(version, Integer(100000))
     THEN Raise("RuntimeError", "Unsupported plist", <<>>)
     ELSE IF top_property.t # "dict"
     THEN Raise("AttributeError", "no attribute items", <<>>)
     ELSE TopEntries(1, top_property, objects_array,
                     Ret(Dict(<< <<"$archiver", archiver>>,
                                 <<"$version", version>> >>), <<>>))

Decode(root) ==
  LET archiver == DictGet(root, "$archiver")
      version == DictGet(root, "$version")
      objects_property == DictGet(root, "$objects")
      objects_array ==
        IF Truthy(objects_property) THEN objects_property.xs ELSE <<>>
      top == DictGet(root, "$top")
      top_property == IF Truthy(top) THEN top ELSE Dict(<<>>)
  IN IF root.t # "dict"
     THEN Raise("RuntimeError",
                "Unsupported plist: unsupported root item type", <<>>)
     ELSE IF \/ ~PyEq(archiver, Str("NSKeyedArchiver"))
             \/ ~PyEq(version, Integer(100000))
     THEN Raise("RuntimeError", "Unsupported plist", <<>>)
     ELSE IF top_property.t # "dict"
     THEN Raise("AttributeError", "no attribute items", <<>>)
     ELSE TopEntries(1, top_property, objects_array, Ret(Dict(<<>>), <<>>))

\* IsEncoded with the comparison of $version left out.
IsEncoded_ArchiverOnly(root) ==
  LET archiver == DictGet(root, "$archiver")
  IN IF root.t # "dict" THEN FALSE
     ELSE PyEq(archiver, Str("NSKeyedArchiver"))

IsEncoded(root) ==
  LET archiver == DictGet(root, "$archiver")
      version == DictGet(root, "$version")
  IN IF root.t # "dict" THEN FALSE
     ELSE /\ PyEq(archiver, Str("NSKeyedArchiver"))
          /\ PyEq(version, Integer(100000))

-----------------------------------------------------------------------------
(* The archives the decoder is run on.                                     *)
(*                                                                         *)
(* An object pool of n body entries is body \o descriptors: the entry at   *)
(* index i < n has its class descriptor at index n + i.  A body item is a  *)
(* pair of an entry and the descriptor that goes with it.                  *)

Refs == 0..MaxUID

Descriptor(classname, classes) ==
  Dict(<< <<"$classname", Str(classname)>>,
          <<"$classes", List([i \in 1..Len(classes) |-> Str(classes[i])])>> >>)

Record(class, fields) == Dict(<< <<"$class", UID(class)>> >> \o fields)

Item(e, d) == [e |-> e, d |-> d]

MyClass == Descriptor("MyClass", <<"MyClass", "NSObject">>)
NSMutableArray ==
  Descriptor("NSMutableArray", <<"NSMutableArray", "NSArray", "NSObject">>)
NSMutableDictionary ==
  Descriptor("NSMutableDictionary",
             <<"NSMutableDictionary", "NSDictionary", "NSObject">>)
NSHashTable == Descriptor("NSHashTable", <<"NSHashTable", "NSObject">>)
NSMutableString ==
  Descriptor("NSMutableString", <<"NSMutableString", "NSString", "NSObject">>)
NSURL == Descriptor("NSURL", <<"NSURL", "NSObject">>)

Primitives == {Str("$null"), Str("alpha"), Str("beta"), Integer(42), Str("")}

\* The forms of a reference to the pool index r.
UIDForms(r) == {UID(r), CFUID(Integer(r))}

\* Values that look like the XML form of a UID but hold no pool index of
\* their own.
OddUIDs == {CFUID(Integer(-1)), CFUID(Str("1")), CFUID(Null)}

InlineValues ==
  {Str("text"), Str("$null"), Null, List(<<UID(0), Str("$null")>>),
   Dict(<< <<"NS.keys", UID(0)>> >>)}

CompositeItems(c) ==
  {Item(Record(c, << <<"ref", u>>, <<"val", v>> >>), MyClass) :
     u \in UNION {UIDForms(r) : r \in Refs} \cup OddUIDs,
     v \in {Str("text"), Str("$null")}}
  \cup {Item(Record(c, << <<"val", v>> >>), MyClass) : v \in InlineValues}
  \cup {Item(Record(c, << <<"sub", Record(c, << <<"ref", UID(r)>> >>)>> >>),
             MyClass) : r \in Refs}

UIDLists(n) ==
  UNION {[1..k -> {UID(r) : r \in Refs}] : k \in 0..n}

ArrayItems(c) ==
  {Item(Record(c, << <<"NS.objects", List(xs)>> >>), NSMutableArray) :
     xs \in UIDLists(MaxElems)}
  \cup {Item(Record(c, << <<"NS.objects", List(<<Str("text")>>)>> >>),
             Descriptor("NSSet", <<"NSSet", "NSObject">>)),
        Item(Record(c, << <<"NS.objects", List(<<CFUID(Integer(0))>>)>> >>),
             Descriptor("NSSet", <<"NSSet", "NSObject">>)),
        Item(Record(c, <<>>), NSMutableArray),
        Item(Record(c, << <<"NS.objects", Integer(5)>> >>), NSMutableArray)}

DictionaryItems(c) ==
  {Item(Record(c, << <<"NS.keys", List(<<UID(k)>>)>>,
                     <<"NS.objects", List(<<UID(v)>>)>> >>),
        NSMutableDictionary) : k \in Refs, v \in Refs}
  \cup {Item(Record(c, << <<"NS.keys", List(<<UID(1), UID(k)>>)>>,
                          <<"NS.objects", List(<<UID(v), UID(2)>>)>> >>),
             NSMutableDictionary) : k \in Refs, v \in Refs}
  \cup {Item(Record(c, << <<"NS.keys", List(<<UID(1)>>)>>,
                          <<"NS.objects", List(<<>>)>> >>),
             NSMutableDictionary),
        Item(Record(c, << <<"NS.keys", List(<<Str("alpha")>>)>>,
                          <<"NS.objects", List(<<UID(1)>>)>> >>),
             NSMutableDictionary),
        Item(Record(c, << <<"NS.objects", List(<<UID(1)>>)>> >>),
             NSMutableDictionary)}

HashTableItems(c) ==
  {Item(Record(c, << <<"$0", Integer(n)>>, <<"$1", UID(r)>>,
                     <<"$2", Integer(0)>> >>), NSHashTable) :
     r \in Refs, n \in {1}}
  \cup {Item(Record(c, << <<"$0", Integer(1)>> >>), NSHashTable),
        Item(Record(c, << <<"$1", Str("alpha")>> >>), NSHashTable),
        Item(Record(c, << <<"$1", CFUID(Integer(0))>> >>), NSHashTable),
        Item(Record(c, << <<"$1", Integer(1)>> >>), NSHashTable),
        Item(Record(c, << <<"$1", Null>>, <<"$2", Integer(0)>> >>),
             NSHashTable),
        Item(Record(c, << <<"$1", Dict(<< <<"CF$UID", Integer(1)>>,
                                          <<"count", Integer(1)>> >>)>> >>),
             NSHashTable)}

StringItems(c) ==
  {Item(Record(c, << <<"NS.string", Str(t)>> >>), NSMutableString) :
     t \in {"text", "$null"}}

URLItems(c) ==
  {Item(Record(c, << <<"NS.base", UID(b)>>, <<"NS.relative", UID(r)>> >>),
        NSURL) : b \in Refs, r \in Refs}
  \cup {Item(Record(c, << <<"NS.base", UID(0)>> >>), NSURL)}

OtherItems(c) ==
  {Item(Record(c, << <<"NS.uuidbytes",
                       Data(<<0, 17, 34, 51, 68, 85, 102, 119, 136, 153,
                              170, 187, 204, 221, 238, 255>>)>> >>),
        Descriptor("NSUUID", <<"NSUUID", "NSObject">>)),
   Item(Record(c, << <<"NS.uuidbytes", Data(<<1, 2>>)>> >>),
        Descriptor("NSUUID", <<"NSUUID", "NSObject">>)),
   Item(Record(c, << <<"NS.data", Data(<<1, 2>>)>> >>),
        Descriptor("NSData", <<"NSData", "NSObject">>)),
   Item(Record(c, << <<"NS.time", Real(1500)>> >>),
        Descriptor("NSDate", <<"NSDate", "NSObject">>)),
   Item(Record(c, <<>>), Descriptor("NSNull", <<"NSNull", "NSObject">>))}

\* Records whose class cannot be resolved the usual way.
ClassItems(c) ==
  {Item(Record(c, << <<"ref", UID(0)>> >>), d) :
     d \in {Descriptor("Foo", <<"Foo">>),
            Descriptor("Foo", <<"Foo", "Bar", "NSURL", "NSObject">>),
            Descriptor("NSArray", <<>>),
            Dict(<< <<"$classname", Str("NSArray")>> >>),
            Dict(<< <<"$classes", List(<<Str("NSObject")>>)>> >>),
            Str("$null"), Integer(0)}}
  \cup {Item(Dict(<< <<"$class", k>>, <<"ref", UID(0)>> >>), MyClass) :
          k \in {UID(MaxUID + 7), Str("x"), Null}}
  \cup {Item(Record(c, << <<"NS.string", Str("text")>> >>),
             Descriptor("NSString", <<"NSObject">>)),
        Item(Record(c, << <<"NS.string", Str("text")>> >>),
             Descriptor("NSString", <<"Foo", "NSArray", "NSString">>)),
        Item(Record(c, << <<"NS.objects", List(<<UID(1)>>)>> >>),
             Descriptor("NSArray", <<>>)),
        Item(Record(c, << <<"NS.objects", List(<<UID(1)>>)>> >>),
             Dict(<< <<"$classname", Str("NSArray")>> >>)),
        Item(Record(c, << <<"NS.objects", List(<<UID(1)>>)>> >>),
             Descriptor("Foo", <<"Bar", "NSSet", "NSObject">>))}

\* Sequences and mappings of three elements, the second of which refers to
\* the record itself.
SkipItems(c) ==
  {Item(Record(c, << <<"NS.objects",
                        List(<<UID(ab[1]), UID(0), UID(ab[2])>>)>> >>), d) :
     ab \in {<<1, 2>>, <<2, 1>>},
     d \in {NSMutableArray, Descriptor("NSSet", <<"NSSet", "NSObject">>)}}
  \cup {Item(Record(c, << <<"NS.keys", List(<<UID(1), UID(k), UID(2)>>)>>,
                          <<"NS.objects", List(<<UID(2), UID(0), UID(1)>>)>> >>),
             NSMutableDictionary) : k \in {1, 2}}

AllItems(c) ==
  CompositeItems(c) \cup ArrayItems(c) \cup DictionaryItems(c)
  \cup HashTableItems(c) \cup StringItems(c) \cup URLItems(c)
  \cup OtherItems(c) \cup ClassItems(c) \cup SkipItems(c)
  \cup {Item(e, MyClass) : e \in Primitives}

\* The entries of the second body slot: the primitives and the records that
\* refer back to the first slot or to themselves.
SecondItems(c) ==
  {Item(e, MyClass) : e \in Primitives}
  \cup {Item(Record(c, << <<"ref", UID(r)>>, <<"val", Str("text")>> >>),
             MyClass) : r \in {0, 1}}
  \cup {Item(Record(c, << <<"NS.objects", List(<<UID(r)>>)>> >>),
             NSMutableArray) : r \in {0, 2}}
  \cup {Item(Record(c, << <<"NS.keys", List(<<UID(r)>>)>>,
                          <<"NS.objects", List(<<UID(0)>>)>> >>),
             NSMutableDictionary) : r \in {0, 2}}
  \cup {Item(Record(c, << <<"$1", UID(0)>> >>), NSHashTable),
        Item(Record(c, << <<"NS.string", Str("$null")>> >>), NSMutableString)}

ThirdItems(c) == {Item(e, MyClass) : e \in Primitives \ {Str("")}}

SlotItems(n, i) ==
  CASE i = 1 -> AllItems(n)
    [] i = 2 -> SecondItems(n + 1)
    [] OTHER -> ThirdItems(n + i - 1)

\* The bodies of n entries, from the i-th slot on.
RECURSIVE BodiesFrom(_, _)
BodiesFrom(n, i) ==
  IF i > n THEN {<<>>}
  ELSE LET items == SlotItems(n, i)
           rests == BodiesFrom(n, i + 1)
       IN {<<x>> \o rest : x \in items, rest \in rests}

Bodies(n) == BodiesFrom(n, 1)

Pool(b) ==
  [i \in 1..Len(b) |-> b[i].e] \o [i \in 1..Len(b) |-> b[i].d]

Tops(n) ==
  {Dict(<< <<"root", UID(0)>> >>)}
  \cup IF n >= 2
       THEN {Dict(<< <<"a", UID(0)>>, <<"b", UID(1)>> >>)}
       ELSE {}

Archive(objects, top) ==
  Dict(<< <<"$archiver", Str("NSKeyedArchiver")>>,
          <<"$version", Integer(100000)>>,
          <<"$objects", List(objects)>>,
          <<"$top", top>> >>)

IsGraphArchive(root) ==
  \E n \in 1..MaxBody : \E b \in Bodies(n) : \E top \in Tops(n) :
    root = Archive(Pool(b), top)

\* Roots that vary the envelope and $top over the pool of a minimal archive.
MinimalPool ==
  <<Str("$null"),
    Record(2, << <<"MyString", Str("Some string")>> >>),
    Descriptor("MyClass", <<"NSObject">>)>>

\* Stands for a key the root does not have.
Absent == [t |-> "absent"]

Envelope(archiver, version, rest) ==
  Dict((IF archiver = Absent THEN <<>>
        ELSE << <<"$archiver", archiver>> >>)
       \o (IF version = Absent THEN <<>>
           ELSE << <<"$version", version>> >>)
       \o rest)

Archivers == {Absent, Str("NSKeyedArchiver"), Str("Other"), Null}

Versions ==
  {Absent, Integer(100000), Real(100000000), Integer(1), Str("100000")}

TopValues ==
  {UID(r) : r \in 0..3}
  \cup {CFUID(Integer(1)), CFUID(Integer(-2)), Str("$null"), Str("text"),
        Integer(100000), List(<<UID(1)>>), Dict(<< <<"$class", UID(2)>> >>),
        Dict(<< <<"NS.objects", Str("$null")>> >>)}

EnvelopeRoots ==
  {Null, Str("NSKeyedArchiver"), Integer(100000),
   List(<<Str("NSKeyedArchiver"), Integer(100000)>>)}
  \cup {Envelope(a, v, << <<"$objects", List(MinimalPool)>>,
                          <<"$top", Dict(<< <<"root", UID(1)>> >>)>> >>) :
          a \in Archivers, v \in Versions}
  \cup {Envelope(Str("NSKeyedArchiver"), Integer(100000), rest) :
          rest \in {<<>>,
                    << <<"$objects", List(MinimalPool)>> >>,
                    << <<"$top", Dict(<< <<"root", UID(0)>> >>)>> >>,
                    << <<"$top", Dict(<< <<"root", Str("text")>> >>)>> >>,
                    << <<"$objects", Null>>, <<"$top", Null>> >>,
                    << <<"$objects", List(MinimalPool)>>,
                       <<"$top", List(<<UID(1)>>)>> >>}}
  \cup {Archive(MinimalPool, Dict(<< <<name, v>> >>)) :
          name \in {"root", "$class"}, v \in TopValues}
  \cup {Archive(MinimalPool,
                 Dict(<< <<"$archiver", a>>, <<"$version", v>> >>)) :
          a \in {Str("NSKeyedArchiver"), UID(1)},
          v \in {Integer(100000), Integer(1), UID(1)}}
  \cup {Archive(MinimalPool, Dict(<< <<"$archiver", Str("NSKeyedArchiver")>>,
                                     <<"root", UID(1)>> >>)),
        Archive(MinimalPool, Dict(<< <<"$version", Integer(100000)>>,
                                     <<"root", UID(1)>> >>))}

-----------------------------------------------------------------------------
(* plistrc/schema_extractor.py (PropertyListSchemaExtractor).              *)
(*                                                                         *)
(* A key path is kept as the sequence of its segments, the text being      *)
(* their join with ".".  A line of the formatted schema is a text.         *)

_COMPOSITE_VALUE_TYPES == {"array", "dict"}

_MAXIMUM_FILE_SIZE == 64 * 1024 * 1024

_MINIMUM_FILE_SIZE == 8

\* resources.PropertyDefinition with its four attributes; name is Null
\* until it is set.
PropertyDefinition(key_path, name, value_type, schema) ==
  [key_path |-> key_path, name |-> name, value_type |-> value_type,
   schema |-> schema]

\* The file data _CheckSignature reads, reduced to what it looks at:
\* whether it starts with bplist0, whether (after an optional byte order
\* mark and white space) it starts with <?xml and whether it ends, white
\* space aside, with </plist>.
_CheckSignature(file_data) ==
  IF file_data.bplist THEN TRUE
  ELSE IF file_data.xml THEN file_data.footer
  ELSE FALSE

\* '.'.join(key_path_segments)
RECURSIVE _GetPropertyListKeyPath(_)
_GetPropertyListKeyPath(key_path_segments) ==
  IF key_path_segments = <<>> THEN ""
  ELSE IF Len(key_path_segments) = 1 THEN key_path_segments[1]
  ELSE key_path_segments[1] \o "." \o
       _GetPropertyListKeyPath(Tail(key_path_segments))

\* The isinstance chain: a bool is an int, so it leaves at the int test.
_GetPropertyListValueType(item) ==
  CASE item.t = "null" -> [err |-> "", val |-> "null"]
    [] item.t = "data" -> [err |-> "", val |-> "data"]
    [] item.t = "dict" -> [err |-> "", val |-> "dict"]
    [] item.t = "real" -> [err |-> "", val |-> "real"]
    [] item.t \in {"int", "bool"} -> [err |-> "", val |-> "int"]
    [] item.t = "list" -> [err |-> "", val |-> "array"]
    [] item.t = "str" -> [err |-> "", val |-> "string"]
    [] item.t = "uid" -> [err |-> "", val |-> "UID"]
    [] item.t = "date" -> [err |-> "", val |-> "date"]
    [] OTHER -> [err |-> "RuntimeError", val |-> ""]

\* Inside both loops value_type is taken of item, not of value, so it is
\* "dict" or "array" and every child goes through the recursive call; the
\* child of a mapping gets the key as name, the element of an array keeps
\* the key path of the array.
RECURSIVE _GetPropertyListSchemaFromItem(_, _)
_GetPropertyListSchemaFromItem(item, key_path_segments) ==
  LET value_type == _GetPropertyListValueType(item)
      children ==
        CASE item.t = "dict" ->
               [i \in 1..Len(item.kv) |->
                  LET child == _GetPropertyListSchemaFromItem(
                        item.kv[i][2],
                        Append(key_path_segments, item.kv[i][1]))
                  IN IF child.err # "" THEN child
                     ELSE [child EXCEPT !.val.name = Str(item.kv[i][1])]]
          [] item.t = "list" ->
               [i \in 1..Len(item.xs) |->
                  _GetPropertyListSchemaFromItem(item.xs[i],
                                                 key_path_segments)]
          [] OTHER -> <<>>
  IN IF value_type.err # "" THEN [err |-> value_type.err, val |-> Null]
     ELSE IF \E i \in 1..Len(children) : children[i].err # ""
     THEN [err |-> "RuntimeError", val |-> Null]
     ELSE [err |-> "",
           val |-> PropertyDefinition(
                     key_path_segments, Null, value_type.val,
                     [i \in 1..Len(children) |-> children[i].val])]

\* The property definitions _GetDictPropertyDefinitions yields, in order.
RECURSIVE _GetDictPropertyDefinitions(_)
RECURSIVE DictPropertyDefinitionsOf(_, _)
DictPropertyDefinitionsOf(schema, i) ==
  IF i > Len(schema) THEN <<>>
  ELSE (IF schema[i].value_type \in _COMPOSITE_VALUE_TYPES
        THEN _GetDictPropertyDefinitions(schema[i]) ELSE <<>>)
       \o DictPropertyDefinitionsOf(schema, i + 1)

\* _GetDictPropertyDefinitions without the descent into the schema.
_GetDictPropertyDefinitions_RootOnly(property_definition) ==
  IF property_definition.value_type = "dict"
  THEN <<property_definition>> ELSE <<>>

_GetDictPropertyDefinitions(property_definition) ==
  (IF property_definition.value_type = "dict"
   THEN <<property_definition>> ELSE <<>>)
  \o DictPropertyDefinitionsOf(property_definition.schema, 1)

\* The keys of the property lists the extractor is run on and the value
\* types, each in the order of Python's comparison of texts.
KeyOrder ==
  <<"$archiver", "$objects", "$top", "$version", "MyString", "a", "b", "c",
    "d", "e", "k", "root">>

TypeOrder ==
  <<",", "UID", "]", "array", "bool", "data", "date", "dict", "int", "null",
    "real", "string">>

RankIn(order, text) == CHOOSE i \in 1..Len(order) : order[i] = text

\* a < b for sequences of numbers, as Python compares sequences.
RECURSIVE LexLess(_, _)
LexLess(a, b) ==
  IF b = <<>> THEN FALSE
  ELSE IF a = <<>> THEN TRUE
  ELSE IF a[1] # b[1] THEN a[1] < b[1]
  ELSE LexLess(Tail(a), Tail(b))

\* The indices of todo in the order of sorted(): by key, equal keys in
\* their original order.  key[i] is the sequence of numbers of element i.
RECURSIVE SortedIndices(_, _)
SortedIndices(key, todo) ==
  IF todo = {} THEN <<>>
  ELSE LET first == CHOOSE i \in todo :
                      \A j \in todo \ {i} :
                        \/ LexLess(key[i], key[j])
                        \/ key[i] = key[j] /\ i < j
       IN <<first>> \o SortedIndices(key, todo \ {first})

\* sorted(xs, key=...)
Sorted(xs, key) ==
  LET indices == SortedIndices(key, 1..Len(xs))
  IN [k \in 1..Len(xs) |-> xs[indices[k]]]

\* The elements of a set of value types, sorted.
RECURSIVE SortedTypes(_)
SortedTypes(types) ==
  IF types = {} THEN <<>>
  ELSE LET least == CHOOSE t \in types :
                      \A u \in types :
                        RankIn(TypeOrder, t) <= RankIn(TypeOrder, u)
       IN <<least>> \o SortedTypes(types \ {least})

\* ','.join(types)
RECURSIVE JoinTypes(_)
JoinTypes(types) ==
  IF types = <<>> THEN ""
  ELSE IF Len(types) = 1 THEN types[1]
  ELSE types[1] \o "," \o JoinTypes(Tail(types))

\* A line of a table with the numbers that order it among the lines that
\* can stand at the same place of a table; -1 ends a line.
Line(text, order) == [text |-> text, order |-> order \o <<-1>>]

\* "table: " and the key path, or "." for the empty key path.
RECURSIVE KeyPathOrder(_)
KeyPathOrder(key_path_segments) ==
  IF Len(key_path_segments) <= 1 THEN <<>>
  ELSE <<0, RankIn(KeyOrder, key_path_segments[2])>>
       \o KeyPathOrder(Tail(key_path_segments))

TableLine(key_path_segments) ==
  LET key_path == _GetPropertyListKeyPath(key_path_segments)
  IN IF key_path = "" THEN Line("table: .", <<0>>)
     ELSE Line("table: " \o key_path, KeyPathOrder(key_path_segments))

\* The two lines of a column.
ColumnLines(value_property_definition) ==
  LET name == value_property_definition.name.s
      array_value_types ==
        SortedTypes({value_property_definition.schema[i].value_type :
                       i \in 1..Len(value_property_definition.schema)})
      array_order ==
        IF array_value_types = <<>> THEN <<RankIn(TypeOrder, "]")>>
        ELSE [i \in 1..(2 * Len(array_value_types)) |->
                IF i % 2 = 1
                THEN RankIn(TypeOrder, array_value_types[(i + 1) \div 2])
                ELSE IF i = 2 * Len(array_value_types)
                THEN RankIn(TypeOrder, "]")
                ELSE RankIn(TypeOrder, ",")]
  IN << Line("- name: " \o name, <<RankIn(KeyOrder, name)>>),
        IF value_property_definition.value_type # "array"
        THEN Line("  value_type: " \o value_property_definition.value_type,
                  <<RankIn(TypeOrder, value_property_definition.value_type)>>)
        ELSE Line("  value_type: array[" \o JoinTypes(array_value_types)
                    \o "]",
                  <<RankIn(TypeOrder, "array")>> \o array_order) >>

RECURSIVE Flatten(_)
Flatten(seqs) ==
  IF seqs = <<>> THEN <<>> ELSE seqs[1] \o Flatten(Tail(seqs))

\* The table of a property definition of a mapping.
Table(property_definition) ==
  LET columns ==
        Sorted(property_definition.schema,
               [i \in 1..Len(property_definition.schema) |->
                  <<RankIn(KeyOrder, property_definition.schema[i].name.s)>>])
  IN <<TableLine(property_definition.key_path), Line("columns:", <<>>)>>
     \o Flatten([i \in 1..Len(columns) |-> ColumnLines(columns[i])])

\* What sorted(tables) compares: the lines of a table, one after another.
TableOrder(table) == Flatten([i \in 1..Len(table) |-> table[i].order])

\* The loop that collects the tables, from the i-th definition on.
RECURSIVE Tables(_, _, _)
Tables(definitions, i, tables) ==
  IF i > Len(definitions) THEN tables
  ELSE IF definitions[i].schema = <<>>
  THEN Tables(definitions, i + 1, tables)
  ELSE LET table == Table(definitions[i])
       IN IF \E j \in 1..Len(tables) : tables[j] = table
          THEN Tables(definitions, i + 1, tables)
          ELSE Tables(definitions, i + 1, Append(tables, table))

\* The lines of the formatted schema; the text returned is their join with
\* new lines.
_FormatSchemaAsYAML(schema) ==
  LET collected == Tables(_GetDictPropertyDefinitions(schema), 1, <<>>)
      tables == Sorted(collected,
                       [i \in 1..Len(collected) |-> TableOrder(collected[i])])
  IN <<"# PList-kb property list schema.", "---">>
     \o Flatten([i \in 1..Len(tables) |->
                   [j \in 1..Len(tables[i]) |-> tables[i][j].text]
                   \o <<"---">>])

FormatSchema(schema, output_format) ==
  IF output_format = "yaml"
  THEN [err |-> "", val |-> _FormatSchemaAsYAML(schema)]
  ELSE [err |-> "RuntimeError", val |-> <<>>]

\* The local variable root_item of ExtractSchemas before its first
\* assignment.
Unbound == [t |-> "unbound"]

\* The end of a pass of the loop of ExtractSchemas: the schema of the item
\* is yielded under the name of the file entry.
YieldSchema(file_entry, item, messages, plist_schema) ==
  IF plist_schema.err # ""
  THEN [root_item |-> item, log |-> messages, yield |-> Null,
        err |-> plist_schema.err]
  ELSE [root_item |-> item, log |-> messages,
        yield |-> [identifier |-> file_entry.stem \o file_entry.suffix,
                   schema |-> plist_schema.val],
        err |-> ""]

\* A pass of the loop of ExtractSchemas from the test of IsEncoded on:
\* outcome is that of Decode on the loaded item, or the item itself when it
\* is not encoded.
ExtractLoaded(file_entry, loaded_item, load_log, outcome) ==
  LET decode_log ==
        IF outcome.err \in {"RuntimeError", "RecursionError"}
        THEN <<"Unable to decode property list file">> ELSE <<>>
      decoded_item == IF outcome.err = "" THEN outcome.val ELSE loaded_item
  IN IF outcome.err \notin {"", "RuntimeError", "RecursionError"}
     THEN [root_item |-> loaded_item, log |-> load_log, yield |-> Null,
           err |-> outcome.err]
     ELSE YieldSchema(file_entry, decoded_item, load_log \o decode_log,
                      _GetPropertyListSchemaFromItem(decoded_item, <<"">>))

\* One pass of the loop of ExtractSchemas over the file entries, before
\* being the local variable root_item as the pass before left it: the value
\* the variable has afterwards, the messages logged, the pair yielded (Null for
\* none) and the class of the exception that leaves the generator ("" for
\* none).
ExtractFileEntry(file_entry, before) ==
  LET skipped ==
        \/ ~file_entry.is_file
        \/ file_entry.size < _MINIMUM_FILE_SIZE
        \/ file_entry.size > _MAXIMUM_FILE_SIZE
        \/ ~_CheckSignature(file_entry.data)
        \/ file_entry.suffix = ".nib"
      load_log ==
        CASE file_entry.load = "InvalidFileException" ->
               <<"Invalid property list file">>
          [] file_entry.load = "ExpatError" ->
               <<"Corrupt XML property list file">>
          [] OTHER -> <<>>
      loaded_item == IF file_entry.load = "" THEN file_entry.root ELSE before
  IN IF skipped
     THEN [root_item |-> before, log |-> <<>>, yield |-> Null, err |-> ""]
     ELSE IF loaded_item = Unbound
     THEN [root_item |-> before, log |-> load_log, yield |-> Null,
           err |-> "UnboundLocalError"]
     ELSE ExtractLoaded(file_entry, loaded_item, load_log,
                        IF IsEncoded(loaded_item) THEN Decode(loaded_item)
                        ELSE Ret(loaded_item, <<>>))

-----------------------------------------------------------------------------
(* plistrc/scripts/extract.py (Main): the output directory.                *)

\* The last number Main tries for the name of an output file.
MaximumNumber == 98

\* The name <identifier>.<number>.<format> of an output file.
OutputFile(identifier, number, output_format) ==
  [identifier |-> identifier, number |-> number, format |-> output_format]

\* os.path.exists(output_file) and the text read from an existing file.
FileExists(files_of, output_file) == \E f \in files_of : f.name = output_file

ReadFile(files_of, output_file) ==
  (CHOOSE f \in files_of : f.name = output_file).text

\* The loop of Main over the numbers 1 to MaximumNumber: it breaks at the
\* first number whose file does not exist or holds the output text, and
\* ends with the last number when it never breaks. The result is the output
\* file the loop ends with and whether a file with the output text was
\* found.
FindOutputFile(files_of, identifier, output_format, output_text) ==
  LET breaks ==
        {number \in 1..MaximumNumber :
           LET output_file == OutputFile(identifier, number, output_format)
           IN \/ ~FileExists(files_of, output_file)
              \/ ReadFile(files_of, output_file) = output_text}
      last ==
        IF breaks = {} THEN MaximumNumber
        ELSE CHOOSE number \in breaks : \A other \in breaks : number <= other
      output_file == OutputFile(identifier, last, output_format)
  IN [output_file |-> output_file,
      file_exists |-> /\ FileExists(files_of, output_file)
                      /\ ReadFile(files_of, output_file) = output_text]

\* The output directory after Main has dealt with the output text of a
\* schema: the file found is opened for writing unless it holds the text.
WriteOutput(files_of, identifier, output_format, output_text) ==
  LET found == FindOutputFile(files_of, identifier, output_format,
                              output_text)
  IN IF found.file_exists THEN files_of
     ELSE {f \in files_of : f.name # found.output_file}
          \cup {[name |-> found.output_file, text |-> output_text]}

-----------------------------------------------------------------------------
(* The file entries the extractor is run on *)

\* A run of ExtractSchemas lists 1..MaxFiles file entries.
MaxFiles == 2

BinaryData == [bplist |-> TRUE, xml |-> FALSE, footer |-> FALSE]

FileEntry(stem, suffix, is_file, size, data, load, root) ==
  [stem |-> stem, suffix |-> suffix, is_file |-> is_file, size |-> size,
   data |-> data, load |-> load, root |-> root]

\* A binary property list file that loads as root.
PlistFile(stem, root) ==
  FileEntry(stem, ".plist", TRUE, 100, BinaryData, "", root)

PlainRoots ==
  {Dict(<< <<"a", Integer(1)>> >>),
   Dict(<< <<"b", Str("s")>>, <<"a", Bool(TRUE)>> >>),
   Dict(<< <<"a", Bool(TRUE)>>,
           <<"b", List(<<Bool(FALSE), Integer(1), Str("s")>>)>>,
           <<"c", Dict(<<>>)>>,
           <<"d", List(<<Dict(<< <<"k", Integer(1)>> >>),
                         Dict(<< <<"k", Integer(2)>> >>),
                         Dict(<<>>)>>)>>,
           <<"e", List(<<>>)>> >>),
   Dict(<<>>),
   List(<<Dict(<< <<"a", Integer(1)>> >>), Dict(<< <<"a", Str("s")>> >>),
          Dict(<< <<"b", Real(1500)>> >>)>>),
   Dict(<< <<"a", Dict(<< <<"b", Dict(<< <<"k", Date(0)>> >>)>>,
                          <<"c", Data(<<1, 2>>)>> >>)>>,
           <<"b", Real(1500)>>,
           <<"e", List(<<List(<<Dict(<< <<"k", UID(1)>> >>)>>),
                         UID(1), Date(0)>>)>> >>),
   Str("s")}

ArchiveRoots ==
  {Archive(MinimalPool, Dict(<< <<"root", UID(1)>> >>)),
   Archive(MinimalPool, Dict(<< <<"a", Str("$null")>>, <<"b", UID(1)>> >>)),
   Archive(<<Str("")>>, Dict(<< <<"root", UID(0)>> >>)),
   Archive(<<Str("")>>, Dict(<< <<"root", UID(5)>> >>)),
   Archive(<<Record(1, << <<"NS.string", Str("$null")>> >>), NSMutableString>>,
           Dict(<< <<"root", UID(0)>> >>))}

FileEntries ==
  {PlistFile("x", root) : root \in PlainRoots \cup ArchiveRoots}
  \cup {PlistFile("y", Dict(<< <<"a", Integer(1)>> >>)),
        FileEntry("x", ".plist", TRUE, 100, BinaryData,
                  "InvalidFileException", Null),
        FileEntry("x", ".plist", TRUE, 100,
                  [bplist |-> FALSE, xml |-> TRUE, footer |-> TRUE],
                  "ExpatError", Null),
        FileEntry("x", ".plist", TRUE, 100,
                  [bplist |-> FALSE, xml |-> TRUE, footer |-> FALSE],
                  "", Dict(<< <<"a", Integer(1)>> >>)),
        FileEntry("x", ".plist", TRUE, 100,
                  [bplist |-> FALSE, xml |-> FALSE, footer |-> FALSE],
                  "", Dict(<< <<"a", Integer(1)>> >>)),
        FileEntry("x", "", FALSE, 100, BinaryData, "",
                  Dict(<< <<"a", Integer(1)>> >>)),
        FileEntry("x", ".plist", TRUE, _MINIMUM_FILE_SIZE - 1, BinaryData, "",
                  Dict(<< <<"a", Integer(1)>> >>)),
        FileEntry("x", ".plist", TRUE, _MAXIMUM_FILE_SIZE + 1, BinaryData, "",
                  Dict(<< <<"a", Integer(1)>> >>)),
        FileEntry("x", ".nib", TRUE, 100, BinaryData, "",
                  Dict(<< <<"a", Integer(1)>> >>))}

FileLists == UNION {[1..n -> FileEntries] : n \in 1..MaxFiles}

\* The options of the extract script: the format, and the output directory
\* when the schemas are to be written and not printed.
OptionsSets ==
  {[format |-> f, output |-> Null] : f \in {"yaml", "text"}}
  \cup {[format |-> "yaml", output |-> Str("out")]}

\* The text of the schema of the property list {"a": 1}.
SchemaText ==
  _FormatSchemaAsYAML(
    _GetPropertyListSchemaFromItem(Dict(<< <<"a", Integer(1)>> >>),
                                   <<"">>).val)

\* What the output directory holds when the script starts: nothing, a file
\* of every number for one identifier left by earlier runs, or the files of
\* an earlier run of which the first was removed.
OutputDirectories ==
  {{},
   {[name |-> OutputFile("x.plist", number, "yaml"),
     text |-> <<"# PList-kb property list schema.", "---", "other", "---">>] :
      number \in 1..MaximumNumber},
   {[name |-> OutputFile("x.plist", 2, "yaml"), text |-> SchemaText]}}

-----------------------------------------------------------------------------
(* plistrc/yaml_definitions_file.py (YAMLPropertyListDefinitionsFile).     *)
(*                                                                         *)
(* A mapping of a YAML document has keys of any scalar type: its kv holds  *)
(* pairs of a key value and a value.                                       *)

_SUPPORTED_KEYS == {"artifact_definition", "property_list_identifier"}

\* resources.PropertyListDefinition with its two attributes.
PropertyListDefinition(artifact_definition, property_list_identifier) ==
  [artifact_definition |-> artifact_definition,
   property_list_identifier |-> property_list_identifier]

\* set(v): the keys of a mapping, the elements of a sequence, the
\* characters of a text (opaque); TypeError for a value that cannot be
\* iterated or an element that cannot be hashed.
YamlSet(v) ==
  CASE v.t = "dict" ->
         [err |-> "", val |-> {v.kv[i][1] : i \in 1..Len(v.kv)}]
    [] v.t = "list" ->
         IF \E i \in 1..Len(v.xs) : v.xs[i].t \in {"list", "dict"}
         THEN [err |-> "TypeError", val |-> {}]
         ELSE [err |-> "", val |-> {v.xs[i] : i \in 1..Len(v.xs)}]
    [] v.t = "str" -> [err |-> "", val |-> {Str("?")}]
    [] OTHER -> [err |-> "TypeError", val |-> {}]

\* v.get(name, None) of a mapping
YamlGet(v, name) ==
  IF \E i \in 1..Len(v.kv) : v.kv[i][1] = Str(name)
  THEN v.kv[CHOOSE i \in 1..Len(v.kv) : v.kv[i][1] = Str(name)][2]
  ELSE Null

_ReadPropertyListDefinition(yaml_property_list_definition) ==
  LET keys == YamlSet(yaml_property_list_definition)
      different_keys ==
        {k \in keys.val : ~(k.t = "str" /\ k.s \in _SUPPORTED_KEYS)}
      artifact_definition ==
        YamlGet(yaml_property_list_definition, "artifact_definition")
      property_list_identifier ==
        YamlGet(yaml_property_list_definition, "property_list_identifier")
  IN IF ~Truthy(yaml_property_list_definition)
     THEN [err |-> "RuntimeError",
           msg |-> "Missing property list definition values.", val |-> Null]
     ELSE IF keys.err # ""
     THEN [err |-> keys.err, msg |-> "", val |-> Null]
     ELSE IF different_keys # {}
     THEN IF \A k \in different_keys : k.t = "str"
          THEN [err |-> "RuntimeError", msg |-> "Undefined keys",
                val |-> Null]
          ELSE [err |-> "TypeError",
                msg |-> "sequence item: expected str instance", val |-> Null]
     ELSE IF yaml_property_list_definition.t # "dict"
     THEN [err |-> "AttributeError", msg |-> "no attribute get", val |-> Null]
     ELSE IF ~Truthy(artifact_definition)
     THEN [err |-> "RuntimeError",
           msg |-> "Invalid property list definition missing format identifier.",
           val |-> Null]
     ELSE IF ~Truthy(property_list_identifier)
     THEN [err |-> "RuntimeError",
           msg |-> "Invalid property list definition missing property list identifier.",
           val |-> Null]
     ELSE [err |-> "", msg |-> "",
           val |-> PropertyListDefinition(artifact_definition,
                                          property_list_identifier)]

\* The outcome before the call.
NotRead == [err |-> "not called", msg |-> "", val |-> Null]

\* The documents the reader is given: mappings that have each of four keys
\* or not, and some documents that are no mappings.
DefinitionValues == {Str("Name"), Str(""), Integer(0), Null}

YamlEntries(key) == {<<>>} \cup {<< <<key, v>> >> : v \in DefinitionValues}

YamlDocuments ==
  {Dict(a \o p \o o \o n) :
     a \in YamlEntries(Str("artifact_definition")),
     p \in YamlEntries(Str("property_list_identifier")),
     o \in YamlEntries(Str("other")),
     n \in YamlEntries(Integer(1))}
  \cup {Null, Str(""), Str("text"), Integer(5), List(<<>>),
        List(<<Str("artifact_definition")>>),
        List(<<Str("artifact_definition"), Integer(1)>>),
        List(<<List(<<>>)>>)}

-----------------------------------------------------------------------------
(* The calls *)

NotCalled == Raise("not called", "", <<>>)

\* The decoder at rest, the extractor at rest.
DecoderIdle ==
  /\ root_item = Null
  /\ pc = "idle"
  /\ encoded = Null
  /\ decoded = NotCalled
  /\ reencoded = Null

ExtractorIdle ==
  /\ files = <<>>
  /\ listed = <<>>
  /\ options = [format |-> "yaml", output |-> Null]
  /\ loaded = Unbound
  /\ log = <<>>
  /\ pending = Null
  /\ yielded = <<>>
  /\ printed = <<>>
  /\ directory = {}
  /\ run = "idle"

DefinitionsIdle ==
  /\ yaml_document = Null
  /\ definition = NotRead

\* Stands for the result of a call not made yet.
NotReturned == [t |-> "not returned"]

RecogniserIdle ==
  /\ uid_property = Null
  /\ plist_uid = NotReturned

Init ==
  /\ IsGraphArchive(root_item) \/ root_item \in EnvelopeRoots
  /\ pc = "start"
  /\ encoded = Null
  /\ decoded = NotCalled
  /\ reencoded = Null
  /\ ExtractorIdle
  /\ DefinitionsIdle
  /\ RecogniserIdle

CallIsEncoded ==
  /\ pc = "start"
  /\ encoded' = Bool(IsEncoded(root_item))
  /\ pc' = "checked"
  /\ UNCHANGED <<root_item, decoded, reencoded>>
  /\ UNCHANGED <<extract_vars, definition_vars, uid_vars>>

CallDecode ==
  /\ pc = "checked"
  /\ decoded' = Decode(root_item)
  /\ pc' = "decoded"
  /\ UNCHANGED <<root_item, encoded, reencoded>>
  /\ UNCHANGED <<extract_vars, definition_vars, uid_vars>>

CallIsEncodedOnDecoded ==
  /\ pc = "decoded"
  /\ decoded.err = ""
  /\ reencoded' = Bool(IsEncoded(decoded.val))
  /\ pc' = "done"
  /\ UNCHANGED <<root_item, encoded, decoded>>
  /\ UNCHANGED <<extract_vars, definition_vars, uid_vars>>

Next == CallIsEncoded \/ CallDecode \/ CallIsEncodedOnDecoded

Spec == Init /\ [][Next]_vars

-----------------------------------------------------------------------------
(* scripts/extract.py: Main drawing from ExtractSchemas *)

ExtractInit ==
  /\ DecoderIdle
  /\ DefinitionsIdle
  /\ RecogniserIdle
  /\ files \in FileLists
  /\ listed = <<>>
  /\ options \in OptionsSets
  /\ loaded = Unbound
  /\ log = <<>>
  /\ pending = Null
  /\ yielded = <<>>
  /\ printed = <<>>
  /\ directory \in IF options.output = Null THEN {{}} ELSE OutputDirectories
  /\ run = "running"

\* What a pass of the loop of ExtractSchemas leaves behind: the local variable
\* root_item, the messages logged, the pair yielded to Main and the exception
\* that ends the run.
RecordPass(pass, index) ==
  /\ loaded' = pass.root_item
  /\ log' = log \o [i \in 1..Len(pass.log) |->
                      [index |-> index, message |-> pass.log[i]]]
  /\ pending' = IF pass.yield = Null THEN Null
                ELSE [index |-> index,
                      identifier |-> pass.yield.identifier,
                      item |-> pass.root_item,
                      schema |-> pass.yield.schema]
  /\ yielded' = IF pass.yield = Null THEN yielded
                ELSE Append(yielded, pending')
  /\ run' = IF pass.err = "" THEN "running" ELSE pass.err

\* ExtractSchemas runs one pass of its loop: the entry is skipped, a pair is
\* yielded to Main, or an exception leaves the generator and Main.
ExtractNextFile ==
  /\ run = "running"
  /\ pending = Null
  /\ files # <<>>
  /\ files' = Tail(files)
  /\ listed' = Append(listed, Head(files))
  /\ RecordPass(ExtractFileEntry(Head(files), loaded), Len(listed) + 1)
  /\ UNCHANGED <<options, printed, directory>>
  /\ UNCHANGED <<decode_vars, definition_vars, uid_vars>>

\* The body of the loop of Main for the pair yielded: the schema is
\* formatted and printed, or written to the output directory when there is
\* one.
FormatYielded ==
  /\ run = "running"
  /\ pending # Null
  /\ LET output_text == FormatSchema(pending.schema, options.format)
     IN IF output_text.err # ""
        THEN /\ run' = output_text.err
             /\ printed' = printed
             /\ directory' = directory
        ELSE IF options.output = Null
        THEN /\ run' = run
             /\ printed' = Append(printed,
                                  [index |-> pending.index,
                                   identifier |-> pending.identifier,
                                   item |-> pending.item,
                                   lines |-> output_text.val])
             /\ directory' = directory
        ELSE /\ run' = run
             /\ printed' = printed
             /\ directory' = WriteOutput(directory, pending.identifier,
                                         options.format, output_text.val)
  /\ pending' = Null
  /\ UNCHANGED <<files, listed, options, loaded, log, yielded>>
  /\ UNCHANGED <<decode_vars, definition_vars, uid_vars>>

\* ExtractSchemas has no file entry left: Main returns 0.
ExtractFinished ==
  /\ run = "running"
  /\ pending = Null
  /\ files = <<>>
  /\ run' = "finished"
  /\ UNCHANGED <<files, listed, options, loaded, log, pending, yielded,
                 printed, directory>>
  /\ UNCHANGED <<decode_vars, definition_vars, uid_vars>>

ExtractNext == ExtractNextFile \/ FormatYielded \/ ExtractFinished

ExtractSpec == ExtractInit /\ [][ExtractNext]_vars

-----------------------------------------------------------------------------
(* YAMLPropertyListDefinitionsFile._ReadFromFileObject on one document *)

DefinitionsInit ==
  /\ DecoderIdle
  /\ ExtractorIdle
  /\ RecogniserIdle
  /\ yaml_document \in YamlDocuments
  /\ definition = NotRead

ReadPropertyListDefinition ==
  /\ definition = NotRead
  /\ definition' = _ReadPropertyListDefinition(yaml_document)
  /\ UNCHANGED yaml_document
  /\ UNCHANGED <<decode_vars, extract_vars, uid_vars>>

DefinitionsNext == ReadPropertyListDefinition

DefinitionsSpec == DefinitionsInit /\ [][DefinitionsNext]_vars

-----------------------------------------------------------------------------
(* NSKeyedArchiverDecoder._GetPlistUID on one value *)

MaxIndex == 9

\* The values under the key CF$UID that are no integers.
OtherUIDValues ==
  {Str("1"), Str(""), Null, Bool(TRUE), Bool(FALSE), Real(1500), Real(2000),
   List(<<Integer(1)>>), UID(2), Data(<<1>>), Dict(<<>>)}

PlistProperties ==
  {UID(n) : n \in 0..MaxIndex}
  \cup {CFUID(Integer(n)) : n \in (-MaxIndex)..MaxIndex}
  \cup {CFUID(v) : v \in OtherUIDValues}
  \cup {Dict(<< <<"CF$UID", Integer(n)>>, <<"count", Integer(1)>> >>) :
          n \in 0..MaxIndex}
  \cup {Dict(<< <<"count", Integer(1)>>, <<"CF$UID", UID(n)>> >>) :
          n \in 0..MaxIndex}
  \cup {Dict(<< <<"UID", Integer(n)>> >>) : n \in 0..MaxIndex}
  \cup {Integer(n) : n \in 0..MaxIndex}
  \cup {List(<<UID(n)>>) : n \in 0..MaxIndex}
  \cup {Null, Bool(TRUE), Str("CF$UID"), Str("1"), Real(1000), Data(<<1>>),
        List(<<>>), Dict(<<>>)}

RecogniserInit ==
  /\ DecoderIdle
  /\ ExtractorIdle
  /\ DefinitionsIdle
  /\ uid_property \in PlistProperties
  /\ plist_uid = NotReturned

GetPlistUID ==
  /\ plist_uid = NotReturned
  /\ plist_uid' = _GetPlistUID(uid_property)
  /\ UNCHANGED uid_property
  /\ UNCHANGED <<decode_vars, extract_vars, definition_vars>>

RecogniserNext == GetPlistUID

RecogniserSpec == RecogniserInit /\ [][RecogniserNext]_vars

-----------------------------------------------------------------------------
(* Properties *)

Decoded == pc = "decoded"

Succeeded == Decoded /\ decoded.err = ""

\* $objects and $top as Decode reads them.
PoolOf(root) ==
  IF root.t = "dict" /\ Truthy(DictGet(root, "$objects"))
  THEN DictGet(root, "$objects").xs
  ELSE <<>>

TopOf(root) ==
  IF root.t = "dict" /\ Truthy(DictGet(root, "$top"))
  THEN DictGet(root, "$top")
  ELSE Dict(<<>>)

\* root is a mapping whose $archiver is "NSKeyedArchiver" and whose $version
\* is the number 100000.
HasEnvelope(root) ==
  /\ root.t = "dict"
  /\ DictHas(root, "$archiver")
  /\ DictGet(root, "$archiver") = Str("NSKeyedArchiver")
  /\ DictHas(root, "$version")
  /\ DictGet(root, "$version") \in {Integer(100000), Real(100000000)}

EnvelopeError ==
  /\ decoded.err = "RuntimeError"
  /\ decoded.msg \in {"Unsupported plist",
                      "Unsupported plist: unsupported root item type"}

\* C1: IsEncoded(root) is true exactly when root is a mapping whose
\* $archiver equals "NSKeyedArchiver" and whose $version equals 100000, and
\* Decode(root) raises the envelope error exactly when IsEncoded(root) is
\* false.
C1_EnvelopeCheck ==
  /\ pc # "start" => encoded = Bool(HasEnvelope(root_item))
  /\ Decoded => (EnvelopeError <=> encoded = Bool(FALSE))

\* Decode has rejected a mapping whose $archiver is not "NSKeyedArchiver",
\* and IsEncoded has answered false for it.
C1_Witness ==
  /\ Decoded
  /\ root_item.t = "dict"
  /\ DictGet(root_item, "$archiver") = Str("Other")
  /\ DictGet(root_item, "$version") = Integer(100000)
  /\ encoded = Bool(FALSE)
  /\ EnvelopeError

\* What the dispatcher makes of the pool entry a $top value refers to.
TopDispatch(root, value_property) ==
  LET uid == _GetPlistUID(value_property)
      sub == Subscript(PoolOf(root), uid)
  IN IF sub.err # "" THEN Raise(sub.err, "objects_array index", <<>>)
     ELSE _DecodeObject(sub.val, PoolOf(root), <<uid>>, 1)

\* Every UID leaf of $top refers to a pool entry the dispatcher decodes.
TopDispatches(root) ==
  /\ TopOf(root).t = "dict"
  /\ \A i \in 1..Len(TopOf(root).kv) :
       LET v == TopOf(root).kv[i][2]
       IN _GetPlistUID(v) # Null => TopDispatch(root, v).err = ""

\* The mapping with one entry per name of $top: the dispatcher's decoding of
\* pool[i] for a UID leaf with index i, the value itself otherwise.
TopExpected(root) ==
  Dict([i \in 1..Len(TopOf(root).kv) |->
          LET name == TopOf(root).kv[i][1]
              v == TopOf(root).kv[i][2]
          IN IF _GetPlistUID(v) # Null
             THEN <<name, TopDispatch(root, v).val>>
             ELSE <<name, v>>])

\* C2: for every accepted archive Decode returns a mapping with one entry
\* per name in $top: the dispatcher's decoding of pool[i] when the $top
\* value is a UID leaf with index i (a primitive or text entry decodes to
\* itself, "$null" to null, a record to its handler's result), the value
\* verbatim otherwise.
C2_TopEntries ==
  (Decoded /\ HasEnvelope(root_item) /\ TopDispatches(root_item))
    => (decoded.err = "" /\ decoded.val = TopExpected(root_item))

\* C3: Decode terminates whatever cycles the pool holds: parent_objects
\* never grows beyond the number of pool entries and the recursion never
\* runs into the limit of the interpreter.
C3_DepthBounded ==
  Decoded => /\ decoded.maxlen <= Len(PoolOf(root_item))
             /\ decoded.err # "RecursionError"

\* v is an archive UID: the loader's leaf or a single-key {"CF$UID": n} map.
IsUIDLeaf(v) ==
  \/ v.t = "uid"
  \/ v.t = "dict" /\ Len(v.kv) = 1 /\ v.kv[1][1] = "CF$UID"

RECURSIVE HasUIDLeaf(_)
HasUIDLeaf(v) ==
  \/ IsUIDLeaf(v)
  \/ v.t = "list" /\ \E i \in 1..Len(v.xs) : HasUIDLeaf(v.xs[i])
  \/ v.t = "dict" /\ \E i \in 1..Len(v.kv) : HasUIDLeaf(v.kv[i][2])

\* C4: the decoded tree of an archive that decodes without error holds no
\* archive UID at any depth.
C4_NoUIDLeaf == Succeeded => ~HasUIDLeaf(decoded.val)

\* p is a record that _DecodeNSObject hands to _DecodeCompositeObject.
IsGenericComposite(p, pool) ==
  /\ p.t = "dict"
  /\ DictHas(p, "$class")
  /\ LET uid == _GetPlistUID(DictGet(p, "$class"))
         sub == Subscript(pool, uid)
     IN /\ uid # Null
        /\ sub.err = ""
        /\ sub.val.t = "dict"
        /\ DictGet(sub.val, "$classname").t = "str"
        /\ Truthy(DictGet(sub.val, "$classname"))
        /\ DictGet(sub.val, "$classes").t = "list"
        /\ ScanClasses(DictGet(sub.val, "$classes").xs, 1)
             = "_DecodeCompositeObject"

\* The fields of a record: its entries other than $class.
FieldsOf(p) == SelectSeq(p.kv, LAMBDA f : f[1] # "$class")

RefersTo(v, k) == IsUIDLeaf(v) /\ _GetPlistUID(v) = Integer(k)

IsPlain(v) == v.t \in {"null", "bool", "int", "real", "str", "data"}

\* What the dispatcher makes of a plain value.
PlainDecoded(v) == IF v = Str("$null") THEN Null ELSE v

\* pool[a] and pool[b] are generic composite records that reference each
\* other through user keys; their other fields are plain inline values.
MutualComposites(pool, a, b) ==
  /\ a # b
  /\ IsGenericComposite(pool[a + 1], pool)
  /\ IsGenericComposite(pool[b + 1], pool)
  /\ \E i \in 1..Len(pool[a + 1].kv) : RefersTo(pool[a + 1].kv[i][2], b)
  /\ \E i \in 1..Len(pool[b + 1].kv) : RefersTo(pool[b + 1].kv[i][2], a)
  /\ \A i \in 1..Len(FieldsOf(pool[a + 1])) :
       LET v == FieldsOf(pool[a + 1])[i][2] IN RefersTo(v, b) \/ IsPlain(v)
  /\ \A i \in 1..Len(FieldsOf(pool[b + 1])) :
       LET v == FieldsOf(pool[b + 1])[i][2] IN RefersTo(v, a) \/ IsPlain(v)

\* The mapping of pool[a] decoded from the top: the references to pool[b]
\* hold the mapping of pool[b] without its references back to pool[a].
MutualExpected(pool, a, b) ==
  LET inner ==
        Dict([i \in 1..Len(SelectSeq(FieldsOf(pool[b + 1]),
                                     LAMBDA f : ~RefersTo(f[2], a))) |->
                LET f == SelectSeq(FieldsOf(pool[b + 1]),
                                   LAMBDA g : ~RefersTo(g[2], a))[i]
                IN <<f[1], PlainDecoded(f[2])>>])
  IN Dict([i \in 1..Len(FieldsOf(pool[a + 1])) |->
             LET f == FieldsOf(pool[a + 1])[i]
             IN IF RefersTo(f[2], b) THEN <<f[1], inner>>
                ELSE <<f[1], PlainDecoded(f[2])>>])

\* $top is a mapping that refers to pool[a] and pool[b] only.
TopWithin(root, a, b) ==
  /\ TopOf(root).t = "dict"
  /\ TopOf(root).kv # <<>>
  /\ \A i \in 1..Len(TopOf(root).kv) :
       \/ RefersTo(TopOf(root).kv[i][2], a)
       \/ RefersTo(TopOf(root).kv[i][2], b)

\* C5: when two generic composite records reference each other through
\* user keys (their other fields being plain values) Decode succeeds, and
\* each $top entry that refers to one of them holds its mapping with the
\* other record nested in it, the field of the nested record that points
\* back being absent and all other fields decoded.
C5_CycleSuppressed ==
  (Decoded /\ HasEnvelope(root_item)) =>
    LET pool == PoolOf(root_item)
        top == TopOf(root_item)
        composites ==
          {a \in 0..(Len(pool) - 1) : IsGenericComposite(pool[a + 1], pool)}
    IN \A a, b \in composites :
         (MutualComposites(pool, a, b) /\ TopWithin(root_item, a, b))
           => /\ decoded.err = ""
              /\ \A i \in 1..Len(top.kv) :
                   /\ DictHas(decoded.val, top.kv[i][1])
                   /\ RefersTo(top.kv[i][2], a) =>
                        DictGet(decoded.val, top.kv[i][1])
                          = MutualExpected(pool, a, b)

\* Decode has returned for an archive of two composite records that
\* reference each other, and a reference to a parent object was skipped.
C5_Witness ==
  /\ Succeeded
  /\ decoded.cut
  /\ Len(PoolOf(root_item)) >= 2
  /\ MutualComposites(PoolOf(root_item), 0, 1)
  /\ TopWithin(root_item, 0, 1)
  /\ Len(TopOf(root_item).kv) = 2

\* C6: every failure of Decode is a RuntimeError (RecursionError being one
\* of its subclasses): no IndexError, AttributeError or TypeError leaves
\* Decode.
C6_SingleErrorKind ==
  Decoded => decoded.err \in {"", "RuntimeError", "RecursionError"}

ResidualKeys ==
  {"$class", "$classname", "$classes", "CF$UID", "NS.objects", "NS.keys",
   "NS.string", "NS.data", "NS.time", "NS.base", "NS.relative",
   "NS.uuidbytes", "$1"}

RECURSIVE HasKeyIn(_, _)
HasKeyIn(v, keys) ==
  \/ v.t = "list" /\ \E i \in 1..Len(v.xs) : HasKeyIn(v.xs[i], keys)
  \/ v.t = "dict" /\ \E i \in 1..Len(v.kv) :
                       v.kv[i][1] \in keys \/ HasKeyIn(v.kv[i][2], keys)

\* C7: no mapping of the decoded tree of an archive that decodes without
\* error has one of the structural keys.
C7_NoResidualKeys == Succeeded => ~HasKeyIn(decoded.val, ResidualKeys)

RECURSIVE Occurs(_, _)
Occurs(x, v) ==
  \/ v = x
  \/ v.t = "list" /\ \E i \in 1..Len(v.xs) : Occurs(x, v.xs[i])
  \/ v.t = "dict" /\ \E i \in 1..Len(v.kv) : Occurs(x, v.kv[i][2])

\* C8: the text "$null" occurs nowhere as a value in the decoded tree of an
\* archive that decodes without error.
C8_NoSentinel == Succeeded => ~Occurs(Str("$null"), decoded.val)

\* C9: within one successful decode all decoded copies of the same pool
\* entry are equal, whatever the path by which the entry was reached.
C9_SameShape ==
  Succeeded =>
    \A v1, v2 \in decoded.visits : v1.pos = v2.pos => v1.val = v2.val

\* C9 as amended: within one successful decode the decoded copies of the
\* same pool entry are equal when neither was reached through the $1 of an
\* NSHashTable and no reference to a parent object was skipped while
\* decoding either of them.
C9_SameShapeUncut ==
  Succeeded =>
    \A v1, v2 \in decoded.visits :
      (/\ v1.pos = v2.pos
       /\ ~v1.cut /\ ~v2.cut
       /\ v1.via # "$1" /\ v2.via # "$1")
      => v1.val = v2.val

\* Decode has returned, having decoded the same record along two different
\* paths without skipping a reference.
C9_Witness ==
  /\ Succeeded
  /\ \E v1, v2 \in decoded.visits :
       /\ v1.pos = v2.pos
       /\ v1.path # v2.path
       /\ ~v1.cut /\ ~v2.cut
       /\ v1.via # "$1" /\ v2.via # "$1"
       /\ v1.val.t = "list" /\ v1.val.xs # <<>>

\* C10: IsEncoded is false for the mapping Decode returns.
C10_NotEncodedAgain == pc = "done" => reencoded = Bool(FALSE)

TopHasEnvelopeNames(root) ==
  DictHas(TopOf(root), "$archiver") /\ DictHas(TopOf(root), "$version")

\* C10 as amended: IsEncoded is false for the mapping Decode returns unless
\* $top has both an entry named $archiver and an entry named $version.
C10_NotEncodedUnlessInTop ==
  (pc = "done" /\ ~TopHasEnvelopeNames(root_item))
    => reencoded = Bool(FALSE)

\* Decode has returned a mapping with the entry $archiver =
\* "NSKeyedArchiver" taken from $top, and IsEncoded has answered false.
C10_Witness ==
  /\ pc = "done"
  /\ ~TopHasEnvelopeNames(root_item)
  /\ DictGet(decoded.val, "$archiver") = Str("NSKeyedArchiver")
  /\ reencoded = Bool(FALSE)

\* C15: parent_objects never holds a pool index twice during a Decode
\* call, whatever the reference the index came from.
C15_NoIndexTwice == Decoded => ~decoded.dup

\* The pool index a value of parent_objects stands for.
PoolIndex(root, v) == Subscript(PoolOf(root), v).pos

\* C16: every decoding of a pool entry that returns leaves parent_objects
\* as it was when the decoding began; the last of the parent objects is
\* then the index of the entry being decoded, and the decoding of an
\* entry of $top begins with parent_objects holding its index only.
C16_StackDiscipline ==
  Decoded =>
    \A v \in decoded.visits :
      /\ v.po = v.path
      /\ v.path # <<>>
      /\ PoolIndex(root_item, v.path[Len(v.path)]) = v.pos
      /\ v.via = "top" => Len(v.path) = 1

\* Decode has returned after decoding an entry two references below an
\* entry of $top.
C16_Witness ==
  /\ Succeeded
  /\ \E v \in decoded.visits : Len(v.path) >= 3
  /\ \E v \in decoded.visits : v.via = "top" /\ v.val.t \in {"dict", "list"}

-----------------------------------------------------------------------------
(* Properties of the schema extractor *)

DecodeErrorLogged(index) ==
  \E i \in 1..Len(log) :
    /\ log[i].index = index
    /\ log[i].message = "Unable to decode property list file"

\* C11: no schema is yielded for a file entry for which the error of a
\* failed decode was logged.
C11_NoSchemaAfterDecodeError ==
  \A j \in 1..Len(yielded) : ~DecodeErrorLogged(yielded[j].index)

\* C25: every pair ExtractSchemas yields is computed from the content loaded
\* from the file entry it is yielded for; a file entry whose property list
\* fails to load yields no pair and does not end the run.
C25_OwnContent ==
  /\ \A j \in 1..Len(yielded) :
       LET file_entry == listed[yielded[j].index]
       IN /\ file_entry.load = ""
          /\ yielded[j].item \in {file_entry.root, Decode(file_entry.root).val}
  /\ (\E i \in 1..Len(listed) : listed[i].load # "")
       => run \in {"running", "finished"}

\* The mappings of a tree, each with the key path the walker gives it: the
\* root, the mappings under keys and the mappings in arrays.
RECURSIVE MappingsIn(_, _)
MappingsIn(item, key_path) ==
  CASE item.t = "dict" ->
         {[key_path |-> key_path, mapping |-> item]}
         \cup UNION {MappingsIn(item.kv[i][2],
                                Append(key_path, item.kv[i][1])) :
                       i \in 1..Len(item.kv)}
    [] item.t = "list" ->
         UNION {MappingsIn(item.xs[i], key_path) : i \in 1..Len(item.xs)}
    [] OTHER -> {}

\* The type of a value; a boolean counts as "int" when bool_as_int.
ValueTypeOf(value, bool_as_int) ==
  CASE value.t = "null" -> "null"
    [] value.t = "bool" -> IF bool_as_int THEN "int" ELSE "bool"
    [] value.t = "int" -> "int"
    [] value.t = "real" -> "real"
    [] value.t = "str" -> "string"
    [] value.t = "data" -> "data"
    [] value.t = "date" -> "date"
    [] value.t = "uid" -> "UID"
    [] value.t = "list" -> "array"
    [] value.t = "dict" -> "dict"

\* The value type of a column: that of the value, for an array with the
\* sorted set of the types of its elements.
ColumnTypeOf(value, bool_as_int) ==
  IF value.t # "list" THEN ValueTypeOf(value, bool_as_int)
  ELSE "array["
       \o JoinTypes(SortedTypes({ValueTypeOf(value.xs[i], bool_as_int) :
                                   i \in 1..Len(value.xs)}))
       \o "]"

\* The table record of a mapping: its key path and one column for each of
\* its keys, in the order of the keys.
ExpectedTable(key_path, mapping, bool_as_int) ==
  LET columns ==
        Sorted(mapping.kv, [i \in 1..Len(mapping.kv) |->
                              <<RankIn(KeyOrder, mapping.kv[i][1])>>])
      name == _GetPropertyListKeyPath(key_path)
  IN <<"table: " \o (IF name = "" THEN "." ELSE name), "columns:">>
     \o Flatten([i \in 1..Len(columns) |->
                   <<"- name: " \o columns[i][1],
                     "  value_type: "
                       \o ColumnTypeOf(columns[i][2], bool_as_int)>>])

\* The table records of a formatted schema: the lines between the "---"
\* lines, after the heading.
RECURSIVE TableRecords(_, _, _)
TableRecords(lines, i, record) ==
  IF i > Len(lines) THEN <<>>
  ELSE IF lines[i] = "---"
  THEN <<record>> \o TableRecords(lines, i + 1, <<>>)
  ELSE TableRecords(lines, i + 1, Append(record, lines[i]))

PrintedTables(output) == TableRecords(output.lines, 3, <<>>)

NoTableTwice(tables) ==
  \A i, j \in 1..Len(tables) : tables[i] = tables[j] => i = j

\* C12: the formatted schema of a tree has one table record for every
\* mapping of the tree, the root and the mappings without children
\* included, equal records once.
C12_TablePerMapping ==
  \A k \in 1..Len(printed) :
    LET tables == PrintedTables(printed[k])
    IN /\ {tables[i] : i \in 1..Len(tables)}
            = {ExpectedTable(m.key_path, m.mapping, TRUE) :
                 m \in MappingsIn(printed[k].item, <<"">>)}
       /\ NoTableTwice(tables)

\* C12 as amended: the formatted schema of a tree has one table record for
\* every mapping of the tree that has at least one child (the root, the
\* mappings under keys and the mappings in arrays), equal records once; a
\* mapping without children has no record.
C12_TablePerNonEmptyMapping ==
  \A k \in 1..Len(printed) :
    LET tables == PrintedTables(printed[k])
    IN /\ {tables[i] : i \in 1..Len(tables)}
            = {ExpectedTable(m.key_path, m.mapping, TRUE) :
                 m \in {n \in MappingsIn(printed[k].item, <<"">>) :
                          n.mapping.kv # <<>>}}
       /\ NoTableTwice(tables)

\* A schema was printed for a tree with a mapping without children, a
\* mapping under a key path and two mappings with the same table record.
C12_Witness ==
  \E k \in 1..Len(printed) :
    LET mappings == MappingsIn(printed[k].item, <<"">>)
    IN /\ \E m \in mappings : m.mapping.kv = <<>>
       /\ \E m \in mappings : m.mapping.kv # <<>> /\ m.key_path # <<"">>
       /\ \E m, n \in mappings :
            /\ m # n
            /\ m.mapping.kv # <<>>
            /\ ExpectedTable(m.key_path, m.mapping, TRUE)
                 = ExpectedTable(n.key_path, n.mapping, TRUE)
       /\ Len(PrintedTables(printed[k])) >= 2

\* C13: the value type of each column is the type of the child's own
\* value, a boolean being "bool" and an array "array[...]" with the sorted
\* types of its elements.
C13_OwnValueType ==
  \A k \in 1..Len(printed) :
    LET tables == PrintedTables(printed[k])
    IN {tables[i] : i \in 1..Len(tables)}
         = {ExpectedTable(m.key_path, m.mapping, FALSE) :
              m \in {n \in MappingsIn(printed[k].item, <<"">>) :
                       n.mapping.kv # <<>>}}

-----------------------------------------------------------------------------
(* Properties of the definitions reader *)

IsYamlMapping(v) == v.t = "dict"

HasYamlKey(v, key) == \E i \in 1..Len(v.kv) : v.kv[i][1] = key

\* The mapping is not empty, has no key but the two supported ones and a
\* value that is not empty for both.
WellFormedDefinition(v) ==
  /\ v.kv # <<>>
  /\ \A i \in 1..Len(v.kv) :
       v.kv[i][1] \in {Str("artifact_definition"),
                       Str("property_list_identifier")}
  /\ HasYamlKey(v, Str("artifact_definition"))
  /\ HasYamlKey(v, Str("property_list_identifier"))
  /\ \A i \in 1..Len(v.kv) : Truthy(v.kv[i][2])

\* C14: for a mapping _ReadPropertyListDefinition returns the definition
\* with the two values of the mapping when the mapping is well formed and
\* raises RuntimeError in every other case.
C14_ReadOrRuntimeError ==
  (definition # NotRead /\ IsYamlMapping(yaml_document)) =>
    IF WellFormedDefinition(yaml_document)
    THEN /\ definition.err = ""
         /\ definition.val.artifact_definition
              = YamlGet(yaml_document, "artifact_definition")
         /\ definition.val.property_list_identifier
              = YamlGet(yaml_document, "property_list_identifier")
    ELSE definition.err = "RuntimeError"

-----------------------------------------------------------------------------
(* Properties of the handlers of sequences, mappings and hash tables *)

\* The callback of the first of the names that has one, "" when none has.
FirstRegistered(names) ==
  LET hits == {i \in 1..Len(names) : CallbackOf(names[i]) # ""}
  IN IF hits = {} THEN ""
     ELSE CallbackOf(names[CHOOSE i \in hits : \A j \in hits : i <= j])

\* The record p of the pool has a class descriptor whose $classes lead to
\* the given callback.
IsHandledBy(p, pool, callback) ==
  /\ p.t = "dict"
  /\ DictHas(p, "$class")
  /\ LET sub == Subscript(pool, _GetPlistUID(DictGet(p, "$class")))
     IN /\ sub.err = ""
        /\ sub.val.t = "dict"
        /\ Truthy(DictGet(sub.val, "$classname"))
        /\ DictGet(sub.val, "$classes").t = "list"
        /\ FirstRegistered(DictGet(sub.val, "$classes").xs) = callback

\* The value x refers to one of the parent objects.
OnChain(x, parent_objects) ==
  \E i \in 1..Len(parent_objects) : PyEq(parent_objects[i], _GetPlistUID(x))

\* The decoded value of the entry that the reference x of the visited
\* record v led to.
Referent(v, via, x) ==
  (CHOOSE w \in decoded.visits :
     w.via = via /\ w.path = Append(v.path, _GetPlistUID(x))).val

\* The NS.objects of a sequence record that do not refer to a parent object.
KeptObjects(v, p) ==
  SelectSeq(DictGet(p, "NS.objects").xs, LAMBDA x : ~OnChain(x, v.path))

\* The mapping built from the entries i.. of a dictionary record whose
\* value does not refer to a parent object.
RECURSIVE KeptEntries(_, _, _, _)
KeptEntries(v, p, i, acc) ==
  LET ns_keys == DictGet(p, "NS.keys").xs
      ns_objects == DictGet(p, "NS.objects").xs
  IN IF i > Len(ns_objects) THEN acc
     ELSE IF OnChain(ns_objects[i], v.path)
     THEN KeptEntries(v, p, i + 1, acc)
     ELSE KeptEntries(v, p, i + 1,
                      DictSet(acc, Referent(v, "keys", ns_keys[i]).s,
                              Referent(v, "objects", ns_objects[i])))

\* The record at pool index 0 is a sequence or a mapping whose references
\* all lead to itself or to an entry that is no record, its keys to texts.
SelfAndPlain(pool, callback) ==
  /\ pool # <<>>
  /\ IsHandledBy(pool[1], pool, callback)
  /\ DictGet(pool[1], "NS.objects").t = "list"
  /\ \A x \in {DictGet(pool[1], "NS.objects").xs[i] :
                 i \in 1..Len(DictGet(pool[1], "NS.objects").xs)} :
       /\ x.t = "uid" /\ x.n < Len(pool)
       /\ x.n = 0 \/ IsPlain(pool[x.n + 1])
  /\ callback = "_DecodeNSDictionary" =>
       /\ DictGet(pool[1], "NS.keys").t = "list"
       /\ Len(DictGet(pool[1], "NS.keys").xs)
            = Len(DictGet(pool[1], "NS.objects").xs)
       /\ \A i \in 1..Len(DictGet(pool[1], "NS.keys").xs) :
            LET k == DictGet(pool[1], "NS.keys").xs[i]
            IN /\ k.t = "uid" /\ k.n > 0 /\ k.n < Len(pool)
               /\ pool[k.n + 1].t = "str"
               /\ pool[k.n + 1].s \notin {"", "$null"}

\* The elements of a sequence record at pool index 0 that do not refer to
\* the record, decoded.
PlainKept(pool) ==
  LET kept == SelectSeq(DictGet(pool[1], "NS.objects").xs,
                        LAMBDA x : x.n # 0)
  IN List([i \in 1..Len(kept) |-> PlainDecoded(pool[kept[i].n + 1])])

\* The entries i.. of a dictionary record at pool index 0 whose value does
\* not refer to the record, decoded.
RECURSIVE PlainEntries(_, _, _)
PlainEntries(pool, i, acc) ==
  LET ns_keys == DictGet(pool[1], "NS.keys").xs
      ns_objects == DictGet(pool[1], "NS.objects").xs
  IN IF i > Len(ns_objects) THEN acc
     ELSE IF ns_objects[i].n = 0 THEN PlainEntries(pool, i + 1, acc)
     ELSE PlainEntries(pool, i + 1,
                       DictSet(acc, pool[ns_keys[i].n + 1].s,
                               PlainDecoded(pool[ns_objects[i].n + 1])))

\* C17: an element of NS.objects of an NSArray, NSSet or NSDictionary
\* record that refers to a parent object is left out of the decoded
\* sequence (with its key, out of the decoded mapping) without an error, and
\* the other elements are decoded and kept in their order.
C17_AncestorElementsOmitted ==
  Decoded =>
    /\ \A v \in decoded.visits :
         LET p == PoolOf(root_item)[v.pos + 1]
         IN /\ (v.via # "$1" /\ IsHandledBy(p, PoolOf(root_item), "_DecodeNSArray"))
                 => LET kept == KeptObjects(v, p)
                    IN v.val = List([i \in 1..Len(kept) |->
                                       Referent(v, "objects", kept[i])])
            /\ (v.via # "$1"
                /\ IsHandledBy(p, PoolOf(root_item), "_DecodeNSDictionary"))
                 => v.val = KeptEntries(v, p, 1, Dict(<<>>))
    /\ (/\ HasEnvelope(root_item)
        /\ TopOf(root_item) = Dict(<< <<"root", UID(0)>> >>)
        /\ SelfAndPlain(PoolOf(root_item), "_DecodeNSArray"))
         => /\ decoded.err = ""
            /\ decoded.val = Dict(<< <<"root", PlainKept(PoolOf(root_item))>> >>)
    /\ (/\ HasEnvelope(root_item)
        /\ TopOf(root_item) = Dict(<< <<"root", UID(0)>> >>)
        /\ SelfAndPlain(PoolOf(root_item), "_DecodeNSDictionary"))
         => /\ decoded.err = ""
            /\ decoded.val
                 = Dict(<< <<"root",
                            PlainEntries(PoolOf(root_item), 1, Dict(<<>>))>> >>)

\* Decode has returned a sequence of two elements for a record of three,
\* the second of which refers to the record itself.
C17_Witness ==
  /\ Succeeded
  /\ TopOf(root_item) = Dict(<< <<"root", UID(0)>> >>)
  /\ SelfAndPlain(PoolOf(root_item), "_DecodeNSArray")
  /\ Len(DictGet(PoolOf(root_item)[1], "NS.objects").xs) = 3
  /\ DictGet(PoolOf(root_item)[1], "NS.objects").xs[2] = UID(0)
  /\ DictGet(decoded.val, "root").t = "list"
  /\ Len(DictGet(decoded.val, "root").xs) = 2
  /\ DictGet(decoded.val, "root").xs[1] # DictGet(decoded.val, "root").xs[2]

\* The pool with the keys $0 and $2 of the record at index k taken out.
WithoutCounts(pool, k) ==
  [i \in 1..Len(pool) |->
     IF i = k + 1
     THEN Dict(SelectSeq(pool[i].kv, LAMBDA f : f[1] \notin {"$0", "$2"}))
     ELSE pool[i]]

\* The pool with the keys $0 and $2 of the record at index k set to other
\* values, added where the record has none.
WithOtherCounts(pool, k) ==
  [i \in 1..Len(pool) |->
     IF i = k + 1
     THEN DictSet(DictSet(pool[i], "$0", Str("many")), "$2", List(<<UID(0)>>))
     ELSE pool[i]]

\* The root with another pool.
WithPool(root, pool) == DictSet(root, "$objects", List(pool))

\* What a caller of Decode sees of an outcome.
Seen(outcome) == <<outcome.err, outcome.msg, outcome.val>>

\* The hash table record at pool index k is reached from the $top entry
\* root, directly (k = 0) or through the field ref of the generic composite
\* record at index 0 (k = 1).
HashTableReached(root, k) ==
  LET pool == PoolOf(root)
  IN /\ HasEnvelope(root)
     /\ TopOf(root) = Dict(<< <<"root", UID(0)>> >>)
     /\ k < Len(pool)
     /\ IsHandledBy(pool[k + 1], pool, "_DecodeNSHashTable")
     /\ k = 1 =>
          /\ IsGenericComposite(pool[1], pool)
          /\ FieldsOf(pool[1]) # <<>>
          /\ FieldsOf(pool[1])[1] = <<"ref", UID(1)>>

\* C18: a hash table record whose $1 refers to a parent object makes Decode
\* fail with a RuntimeError, as does one that has no $1 or whose $1 is no
\* UID; the keys $0 and $2 of the record do not change the outcome.
C18_HashTableReference ==
  Decoded =>
    /\ \A k \in {0, 1} :
         HashTableReached(root_item, k)
           => LET p == PoolOf(root_item)[k + 1]
                  x == DictGet(p, "$1")
              IN /\ ~DictHas(p, "$1") => decoded.err = "RuntimeError"
                 /\ (DictHas(p, "$1") /\ ~IsUIDLeaf(x))
                      => decoded.err = "RuntimeError"
                 /\ (\E j \in 0..k : RefersTo(x, j))
                      => decoded.err = "RuntimeError"
    /\ \A k \in {0, 1} :
         HashTableReached(root_item, k)
           => /\ Seen(Decode(WithPool(root_item,
                                      WithoutCounts(PoolOf(root_item), k))))
                   = Seen(decoded)
              /\ Seen(Decode(WithPool(root_item,
                                      WithOtherCounts(PoolOf(root_item), k))))
                   = Seen(decoded)

\* Decode has failed on a hash table record, below the $top entry, whose $1
\* refers to the record of the $top entry, and on no other account.
C18_Witness ==
  /\ Decoded
  /\ HashTableReached(root_item, 1)
  /\ DictGet(PoolOf(root_item)[2], "$1") = UID(0)
  /\ decoded.err = "RuntimeError"
  /\ decoded.msg = "$1 in parent objects"

-----------------------------------------------------------------------------
(* Properties of the choice of the handler *)

\* The outcome of the handler named callback on the record at pool index 0
\* of an archive whose $top entry root refers to it.
Applied(callback, pool) ==
  CASE callback = "_DecodeNSArray" ->
         _DecodeNSArray(pool[1], pool, <<Integer(0)>>, 1)
    [] callback = "_DecodeNSData" ->
         _DecodeNSData(pool[1], pool, <<Integer(0)>>)
    [] callback = "_DecodeNSDate" ->
         _DecodeNSDate(pool[1], pool, <<Integer(0)>>)
    [] callback = "_DecodeNSDictionary" ->
         _DecodeNSDictionary(pool[1], pool, <<Integer(0)>>, 1)
    [] callback = "_DecodeNSHashTable" ->
         _DecodeNSHashTable(pool[1], pool, <<Integer(0)>>, 1)
    [] callback = "_DecodeNSNull" ->
         _DecodeNSNull(pool[1], pool, <<Integer(0)>>)
    [] callback = "_DecodeCompositeObject" ->
         _DecodeCompositeObject(pool[1], pool, <<Integer(0)>>, 1)
    [] callback = "_DecodeNSString" ->
         _DecodeNSString(pool[1], pool, <<Integer(0)>>)
    [] callback = "_DecodeNSURL" ->
         _DecodeNSURL(pool[1], pool, <<Integer(0)>>)
    [] callback = "_DecodeNSUUID" ->
         _DecodeNSUUID(pool[1], pool, <<Integer(0)>>)

\* Decode ended as the handler named callback ends on the record of the
\* $top entry root, with a missing-handler error when callback is "".
DecodedBy(callback, pool) ==
  IF callback = ""
  THEN decoded.err = "RuntimeError" /\ decoded.msg = "Missing callback for class"
  ELSE /\ decoded.err = Applied(callback, pool).err
       /\ decoded.msg = Applied(callback, pool).msg
       /\ decoded.err = ""
            => decoded.val = Dict(<< <<"root", Applied(callback, pool).val>> >>)

\* The class descriptor of the record at pool index 0.
ClassOf(pool) == Subscript(pool, _GetPlistUID(DictGet(pool[1], "$class"))).val

\* The names of $classes of a class descriptor, none when it has no list.
ClassesOf(d) ==
  IF DictGet(d, "$classes").t = "list" THEN DictGet(d, "$classes").xs ELSE <<>>

\* The $top entry root refers to the record at pool index 0, whose $class
\* refers to a mapping of the pool.
ClassResolved(root) ==
  LET pool == PoolOf(root)
  IN /\ HasEnvelope(root)
     /\ TopOf(root) = Dict(<< <<"root", UID(0)>> >>)
     /\ pool # <<>>
     /\ pool[1].t = "dict"
     /\ IsUIDLeaf(DictGet(pool[1], "$class"))
     /\ Subscript(pool, _GetPlistUID(DictGet(pool[1], "$class"))).err = ""
     /\ ClassOf(pool).t = "dict"
     /\ DictGet(ClassOf(pool), "$classes").t \in {"list", "null"}

-----------------------------------------------------------------------------
(* Properties of the UID recogniser *)

\* _GetPlistUID has returned.
Recognised == plist_uid # NotReturned

\* A mapping whose only entry has the key CF$UID.
IsCFUID(v) == v.t = "dict" /\ Len(v.kv) = 1 /\ v.kv[1][1] = "CF$UID"

\* C20: _GetPlistUID returns n for the UID with index n and for the mapping
\* {"CF$UID": n} with n an integer that is not negative, and None for every
\* other value, mappings with further keys and mappings {"CF$UID": v} with v
\* negative or no integer among them.  (A bool under CF$UID is left aside,
\* Python counting it among the integers.)
C20_RecognisedUID ==
  Recognised =>
    CASE uid_property.t = "uid" -> plist_uid = Integer(uid_property.n)
      [] IsCFUID(uid_property) /\ uid_property.kv[1][2].t = "int"
         /\ uid_property.kv[1][2].n >= 0 ->
           plist_uid = Integer(uid_property.kv[1][2].n)
      [] IsCFUID(uid_property) /\ uid_property.kv[1][2].t = "bool" -> TRUE
      [] OTHER -> plist_uid = Null

-----------------------------------------------------------------------------
(* Properties of the generic composite handler *)

\* The field x of a record is null-valued or decodes to null: an inline
\* null, the sentinel "$null", or a UID that references a "$null" entry of
\* the pool.
NullField(x, pool) ==
  \/ x = Null
  \/ x = Str("$null")
  \/ /\ IsUIDLeaf(x)
     /\ _GetPlistUID(x).t = "int"
     /\ Subscript(pool, _GetPlistUID(x)).err = ""
     /\ Subscript(pool, _GetPlistUID(x)).val = Str("$null")

\* The visits of the decoding that the generic composite handler made.
CompositeVisits ==
  {v \in decoded.visits :
     IsGenericComposite(PoolOf(root_item)[v.pos + 1], PoolOf(root_item))}

\* C21: in the mapping the generic composite handler returns for a record,
\* a key is absent whenever its field is null-valued or decodes to null (an
\* inline null, the sentinel "$null", or a UID referencing a "$null" pool
\* entry).
C21_NullFieldsAbsent ==
  (Decoded /\ HasEnvelope(root_item)) =>
    \A v \in CompositeVisits :
      LET fields == FieldsOf(PoolOf(root_item)[v.pos + 1])
      IN \A i \in 1..Len(fields) :
           NullField(fields[i][2], PoolOf(root_item))
             => ~DictHas(v.val, fields[i][1])

-----------------------------------------------------------------------------
(* Properties of the handler of arrays and sets *)

\* The $top entry root refers to the record at pool index 0, which the
\* handler named callback decodes.
TopHandledBy(root, callback) ==
  /\ ClassResolved(root)
  /\ IsHandledBy(PoolOf(root)[1], PoolOf(root), callback)

\* The dispatcher's decoding of the element x of a structural field of the
\* record at pool index 0: that of the pool entry x references when x is a
\* UID leaf, that of x itself when x is an inline value.
ElementDecoding(x, pool) ==
  LET uid == _GetPlistUID(x)
      sub == Subscript(pool, uid)
  IN IF uid = Null
     THEN _DecodeObject(x, pool, <<Integer(0)>>, 2)
     ELSE IF sub.err # ""
     THEN Raise(sub.err, "objects_array index", <<Integer(0)>>)
     ELSE _DecodeObject(sub.val, pool, <<Integer(0), uid>>, 2)

\* The elements xs, none of which references the record itself, all have a
\* decoding.
AllDecodable(xs, pool) ==
  \A i \in 1..Len(xs) :
    /\ ~OnChain(xs[i], <<Integer(0)>>)
    /\ ElementDecoding(xs[i], pool).err = ""

\* The sequence of the decodings of the elements xs.
Elementwise(xs, pool) ==
  List([i \in 1..Len(xs) |-> ElementDecoding(xs[i], pool).val])

\* C22 as stated: an array or set record whose NS.objects holds n encoded
\* values, UID leaves or inline values, none of which references an
\* ancestor, decodes to the sequence of the n decodings of its elements in
\* their order; a record without NS.objects is a decode error.
C22_ElementwiseAny ==
  (Decoded /\ TopHandledBy(root_item, "_DecodeNSArray"))
    => LET pool == PoolOf(root_item)
           ns_objects == DictGet(pool[1], "NS.objects")
       IN /\ ~DictHas(pool[1], "NS.objects") => decoded.err # ""
          /\ (ns_objects.t = "list" /\ AllDecodable(ns_objects.xs, pool))
               => /\ decoded.err = ""
                  /\ DictGet(decoded.val, "root")
                       = Elementwise(ns_objects.xs, pool)

\* C22 as the code has it: an array or set record whose NS.objects holds n
\* UID leaves, none of which references an ancestor, decodes to the sequence
\* of the n decodings of the referenced pool entries in their order; a
\* record whose NS.objects holds an element that is no UID, after elements
\* that are decoded, and a record without NS.objects are decode errors
\* (RuntimeError).
C22_ElementwiseUID ==
  (Decoded /\ TopHandledBy(root_item, "_DecodeNSArray"))
    => LET pool == PoolOf(root_item)
           ns_objects == DictGet(pool[1], "NS.objects")
       IN /\ ~DictHas(pool[1], "NS.objects")
               => /\ decoded.err = "RuntimeError"
                  /\ decoded.msg = "Missing NS.objects"
          /\ (ns_objects.t = "list" /\ AllDecodable(ns_objects.xs, pool))
               => IF \E i \in 1..Len(ns_objects.xs) :
                       _GetPlistUID(ns_objects.xs[i]) = Null
                  THEN /\ decoded.err = "RuntimeError"
                       /\ decoded.msg = "Missing UID in NS.objects"
                  ELSE /\ decoded.err = ""
                       /\ DictGet(decoded.val, "root")
                            = Elementwise(ns_objects.xs, pool)
                       /\ Len(DictGet(decoded.val, "root").xs)
                            = Len(ns_objects.xs)

\* Decode has returned the sequence of an array record of two UID leaves
\* whose referents decode to different values.
C22_Witness ==
  /\ Succeeded
  /\ TopHandledBy(root_item, "_DecodeNSArray")
  /\ DictGet(PoolOf(root_item)[1], "NS.objects").t = "list"
  /\ Len(DictGet(PoolOf(root_item)[1], "NS.objects").xs) = 2
  /\ DictGet(decoded.val, "root").t = "list"
  /\ Len(DictGet(decoded.val, "root").xs) = 2
  /\ DictGet(decoded.val, "root").xs[1] # DictGet(decoded.val, "root").xs[2]

-----------------------------------------------------------------------------
(* Properties of the handler of dictionaries *)

\* The elements xs are UID leaves.
AllUIDs(xs) == \A i \in 1..Len(xs) : _GetPlistUID(xs[i]) # Null

\* The decodings of the elements xs are all text.
AllText(xs, pool) ==
  \A i \in 1..Len(xs) : ElementDecoding(xs[i], pool).val.t = "str"

\* The mapping of the entries i.. of the decoded keys to the decoded values,
\* a later entry taking the place of an earlier one of the same key.
RECURSIVE LastOccurrences(_, _, _, _, _)
LastOccurrences(ns_keys, ns_objects, pool, i, acc) ==
  IF i > Len(ns_keys) THEN acc
  ELSE LastOccurrences(
         ns_keys, ns_objects, pool, i + 1,
         DictSet(acc, ElementDecoding(ns_keys[i], pool).val.s,
                 ElementDecoding(ns_objects[i], pool).val))

\* The $top entry root refers to a dictionary record at pool index 0 with n
\* NS.keys and n NS.objects, all of them UID leaves that have a decoding and
\* do not reference the record, the decoded keys being text.
TextKeyedDictionary(root) ==
  /\ TopHandledBy(root, "_DecodeNSDictionary")
  /\ LET pool == PoolOf(root)
         ns_keys == DictGet(pool[1], "NS.keys")
         ns_objects == DictGet(pool[1], "NS.objects")
     IN /\ ns_keys.t = "list"
        /\ ns_objects.t = "list"
        /\ Len(ns_keys.xs) = Len(ns_objects.xs)
        /\ AllUIDs(ns_keys.xs) /\ AllDecodable(ns_keys.xs, pool)
        /\ AllUIDs(ns_objects.xs) /\ AllDecodable(ns_objects.xs, pool)
        /\ AllText(ns_keys.xs, pool)

\* C23: a dictionary record with n NS.keys and n NS.objects whose decoded
\* keys are all text decodes without error to the mapping of each decoded
\* key to the decoded value of its last occurrence, which has at most n
\* entries and fewer than n only when two decoded keys are equal.
C23_TextKeysDecode ==
  (Decoded /\ TextKeyedDictionary(root_item))
    => LET pool == PoolOf(root_item)
           ns_keys == DictGet(pool[1], "NS.keys").xs
           ns_objects == DictGet(pool[1], "NS.objects").xs
           n == Len(ns_keys)
       IN /\ decoded.err = ""
          /\ DictGet(decoded.val, "root")
               = LastOccurrences(ns_keys, ns_objects, pool, 1, Dict(<<>>))
          /\ Len(DictGet(decoded.val, "root").kv) <= n
          /\ Len(DictGet(decoded.val, "root").kv) < n
               => \E i, j \in 1..n :
                    /\ i # j
                    /\ ElementDecoding(ns_keys[i], pool).val
                         = ElementDecoding(ns_keys[j], pool).val

-----------------------------------------------------------------------------
(* Properties of the handler of URLs *)

\* The $top entry root refers to an NSURL record at pool index 0 whose
\* NS.base and NS.relative are UID leaves, the base decoding to a text or to
\* null and the relative to a text.
TextURL(root) ==
  /\ TopHandledBy(root, "_DecodeNSURL")
  /\ LET pool == PoolOf(root)
         fields == <<DictGet(pool[1], "NS.base"),
                     DictGet(pool[1], "NS.relative")>>
     IN /\ DictHas(pool[1], "NS.base")
        /\ DictHas(pool[1], "NS.relative")
        /\ AllUIDs(fields)
        /\ AllDecodable(fields, pool)
        /\ ElementDecoding(fields[1], pool).val.t \in {"str", "null"}
        /\ ElementDecoding(fields[2], pool).val.t = "str"

\* C24: the $top entry of an NSURL record with base b and relative r, both
\* text after decoding, decodes to r when b is "$null" or null and to
\* b + "/" + r otherwise; an NSURL record lacking NS.base or NS.relative is
\* a decode error.
C24_URLComposition ==
  /\ (Decoded /\ TextURL(root_item))
       => LET pool == PoolOf(root_item)
              b == ElementDecoding(DictGet(pool[1], "NS.base"), pool).val
              r == ElementDecoding(DictGet(pool[1], "NS.relative"), pool).val
          IN /\ decoded.err = ""
             /\ DictGet(decoded.val, "root")
                  = IF b = Null \/ b = Str("$null") THEN r
                    ELSE Str(b.s \o "/" \o r.s)
  /\ (/\ Decoded
      /\ TopHandledBy(root_item, "_DecodeNSURL")
      /\ \/ ~DictHas(PoolOf(root_item)[1], "NS.base")
         \/ ~DictHas(PoolOf(root_item)[1], "NS.relative"))
       => decoded.err # ""

-----------------------------------------------------------------------------
(* Properties of the output directory of the extract script *)

\* C26: the extract script never overwrites an existing output file whose
\* content differs from the schema being written, and never writes a schema
\* whose text is identical to an existing <identifier>.<number>.<format>
\* file of the same identifier, also once all numbers for the identifier
\* are in use.
C26_NoOverwriteNoDuplicate ==
  [][/\ \A f \in directory : \A g \in directory' :
          g.name = f.name => g.text = f.text
     /\ \A g \in directory' \ directory : \A f \in directory :
          (/\ f.name.identifier = g.name.identifier
           /\ f.name.format = g.name.format) => f.text # g.text]_vars

====
